---------------------------- MODULE Spec2Model ----------------------------
(***************************************************************************)
(* Verification model of the gravity-sim engine (Wolzo/gravity-sim).       *)
(*                                                                         *)
(* World (src/src/engine/World.js) is modelled operation by operation:     *)
(* addBody, removeBody, clear and step(dt), the latter with its collision  *)
(* pass, the CollisionResolver it calls and the QuadTree broad phase.      *)
(*                                                                         *)
(* Numbers.  The engine computes in IEEE doubles.  The model computes in   *)
(* fixed point: a real v is the integer v * ONE, products and quotients    *)
(* are rescaled (Mul, Div) and square roots are integer square roots.      *)
(*                                                                         *)
(* Motion.  Dynamics (Velocity Verlet under Barnes-Hut gravity) is not     *)
(* computed: a tick places every live body at any point of Positions with  *)
(* any velocity of Velocities, which covers whatever the integrator        *)
(* yields on that grid.  Position and velocity are therefore supplied by   *)
(* the tick and are not kept between ticks.                                *)
(***************************************************************************)
EXTENDS Integers, Sequences, FiniteSets, TLC

(***************************************************************************)
(* Fixed-point arithmetic                                                  *)
(***************************************************************************)
ONE == 100

Min(a, b) == IF a <= b THEN a ELSE b
Max(a, b) == IF a >= b THEN a ELSE b

Abs(a) == IF a < 0 THEN -a ELSE a

\* a * b and a / b on fixed-point values (truncating like integer division).
\* Div computes (a * ONE) \div b in parts so that the intermediate product
\* stays small; b > 0.  MulWide is Mul computed in parts, for the products
\* of a mass and a velocity that are large before the division by ONE.
Mul(a, b) == (a * b) \div ONE
MulWide(a, b) == a * (b \div ONE) + (a * (b % ONE)) \div ONE
Div(a, b) == (a \div b) * ONE + ((a % b) * ONE) \div b

\* Largest r with r * r <= n, by bisection on lo..hi.
RECURSIVE IsqrtIn(_, _, _)
IsqrtIn(n, lo, hi) ==
  IF lo >= hi THEN lo
  ELSE LET mid == (lo + hi + 1) \div 2
       IN IF mid * mid <= n THEN IsqrtIn(n, mid, hi) ELSE IsqrtIn(n, lo, mid - 1)

Isqrt(n) == IF n <= 0 THEN 0 ELSE IsqrtIn(n, 0, Min(n, 46340))

\* Math.sqrt and Math.hypot on fixed-point values.  Like Math.hypot, Hypot
\* scales large arguments down before squaring them.
Sqrt(a) == Isqrt(a * ONE)
HypotScaled(a, b, s) == s * Isqrt((a \div s) * (a \div s) + (b \div s) * (b \div s))
Hypot(a, b) ==
  IF Abs(a) < 30000 /\ Abs(b) < 30000 THEN Isqrt(a * a + b * b)
  ELSE HypotScaled(a, b, Max(Abs(a), Abs(b)) \div 30000 + 1)

\* clamp(value, min, max) of MathUtils.
clamp(value, lo, hi) == Max(lo, Min(hi, value))

(***************************************************************************)
(* PHYSICS configuration                                                   *)
(***************************************************************************)
\* The engine's caps are 1000 bodies and 10 fragments; the model runs the
\* same code with small caps.
MAX_BODIES == 3
MAX_FRAGMENTS == 2
MAX_DEPTH == 3

GRAVITY_CONSTANT == 60
SOFTENING == 8
SEARCH_PADDING == 10
VAPORIZE_THRESHOLD == 100
MASS_RATIO_BIG == 4
TRAIL_INTERVAL == 2
ALPHA_MERGE == ONE \div 4
\* 0.5 * Math.PI
DENSITY_2D == (157 * ONE) \div 100

massFromRadius(radius) == Mul(DENSITY_2D, Mul(radius, radius))
radiusFromMass(mass) == Sqrt(Div(mass, DENSITY_2D))

\* computeEscapeVelocity(G, totalMass, radius, softening), arguments fixed-point
computeEscapeVelocity(G, totalMass, radius, softening) ==
  LET denom == radius + softening
  IN IF denom <= 0 THEN 0 ELSE Sqrt(Div(2 * Mul(G, totalMass), denom))


(***************************************************************************)
(* CollisionResolver                                                       *)
(*                                                                         *)
(* A body handed to the resolver is a record with mass, radius, x, y, vx,  *)
(* vy (fixed point) and isDebris.  A body it creates is a record with      *)
(* mass, radius and isDebris, a merged body also with x, y, vx, vy; the    *)
(* world gives it its identity.                                            *)
(***************************************************************************)
\* Math.round and Math.floor of a non-negative fixed-point value.
Round(a) == (a + ONE \div 2) \div ONE
Floor(a) == a \div ONE

\* value || 1
OrOne(a) == IF a = 0 THEN ONE ELSE a

\* k copies of one debris fragment
Fragments(k, fragMass, fragRadius) ==
  [i \in 1..k |-> [mass |-> fragMass, radius |-> fragRadius, isDebris |-> TRUE]]

\* (a.f * a.mass + b.f * b.mass) / totalMass
weighted(fa, ma, fb, mb) == Div(MulWide(fa, ma) + MulWide(fb, mb), ma + mb)

\* Mutant of createMergedBody: the merged body keeps the velocity of the
\* dominant parent.
createMergedBody_DominantVelocity(bi, bj) ==
  [mass     |-> bi.mass + bj.mass,
   radius   |-> Hypot(bi.radius, bj.radius),
   isDebris |-> FALSE,
   x        |-> weighted(bi.x, bi.mass, bj.x, bj.mass),
   y        |-> weighted(bi.y, bi.mass, bj.y, bj.mass),
   vx       |-> IF bi.mass >= bj.mass THEN bi.vx ELSE bj.vx,
   vy       |-> IF bi.mass >= bj.mass THEN bi.vy ELSE bj.vy]

\* Mutant of createMergedBody: the radii are added, not their squares.
createMergedBody_RadiiAdded(bi, bj) ==
  [mass     |-> bi.mass + bj.mass,
   radius   |-> bi.radius + bj.radius,
   isDebris |-> FALSE,
   x        |-> weighted(bi.x, bi.mass, bj.x, bj.mass),
   y        |-> weighted(bi.y, bi.mass, bj.y, bj.mass),
   vx       |-> weighted(bi.vx, bi.mass, bj.vx, bj.mass),
   vy       |-> weighted(bi.vy, bi.mass, bj.vy, bj.mass)]

createMergedBody(bi, bj) ==
  [mass     |-> bi.mass + bj.mass,
   radius   |-> Hypot(bi.radius, bj.radius),
   isDebris |-> FALSE,
   x        |-> weighted(bi.x, bi.mass, bj.x, bj.mass),
   y        |-> weighted(bi.y, bi.mass, bj.y, bj.mass),
   vx       |-> weighted(bi.vx, bi.mass, bj.vx, bj.mass),
   vy       |-> weighted(bi.vy, bi.mass, bj.vy, bj.mass)]

collisionBigSmall(big, small, alpha) ==
  LET mBig == big.mass
      mSmall == small.mass
      destructionFactor == Min(ONE, ONE \div 5 + Mul(alpha, ONE \div 2))
      fragmentMassTotal == Mul(mSmall, Max((8 * ONE) \div 10, destructionFactor))
      mergedMass == mBig + (mSmall - fragmentMassTotal)
      mergedRadius == Mul(big.radius, Sqrt(Div(mergedMass, mBig)))
      mergedBody == [mass |-> mergedMass, radius |-> mergedRadius, isDebris |-> FALSE]
      rawCount == Round(10 * ONE + 8 * alpha)
      fragCount == Min(MAX_FRAGMENTS, Max(6, rawCount))
      singleFragMass == fragmentMassTotal \div fragCount
      fragRadius == radiusFromMass(singleFragMass)
  IN IF alpha > VAPORIZE_THRESHOLD * ONE \/ fragmentMassTotal <= 0 \/ mergedRadius <= 0
       THEN <<mergedBody>>
       ELSE <<mergedBody>> \o Fragments(fragCount, singleFragMass, fragRadius)

\* _fragmentBoth, step by step.  damage: other / Math.pow(m || 1, 1.5)
fragmentDamage(m, other) == Div(other, Mul(OrOne(m), Sqrt(OrOne(m))))

\* baseLoss: clamp(0.5 + 0.35 * (alpha - 2.0), 0.15, 0.9)
fragmentBaseLoss(alpha) ==
  clamp(ONE \div 2 + Mul((35 * ONE) \div 100, alpha - 2 * ONE),
        (15 * ONE) \div 100, (9 * ONE) \div 10)

\* lostMass: Math.min(fracLoss * m, 0.9 * m), fracLoss = baseLoss * (damage / damageSum)
fragmentLostMass(m, damage, damageSum, baseLoss) ==
  Min(Mul(Mul(baseLoss, Div(damage, damageSum)), m), Mul((9 * ONE) \div 10, m))

\* Mutant of fragmentCore: CORE_MIN_FRAC is 0.6, not 0.2.
fragmentCore_HighMinFrac(m, coreMass) ==
  IF Div(coreMass, m) > (6 * ONE) \div 10
    THEN <<[mass |-> coreMass, radius |-> radiusFromMass(coreMass), isDebris |-> FALSE]>>
    ELSE <<>>

\* The core a body leaves, when more than CORE_MIN_FRAC of its mass survives
fragmentCore(m, coreMass) ==
  IF Div(coreMass, m) > ONE \div 5
    THEN <<[mass |-> coreMass, radius |-> radiusFromMass(coreMass), isDebris |-> FALSE]>>
    ELSE <<>>

\* Mutant of fragmentCount: the count is not capped at MAX_FRAGMENTS.
fragmentCount_NoCap(fragmentMassTotal, minRadius, alpha) ==
  LET MIN_FRAG_RADIUS == Max((12 * ONE) \div 10, Mul((12 * ONE) \div 100, minRadius))
      minFragMass == Max(massFromRadius(MIN_FRAG_RADIUS), 1)
      maxByMass == Max(3, fragmentMassTotal \div minFragMass)
  IN Max(6, Min(maxByMass, Round(6 * ONE + 2 * alpha)))

\* fragCount, from the total fragment mass and the smaller of the two radii
fragmentCount(fragmentMassTotal, minRadius, alpha) ==
  LET MIN_FRAG_RADIUS == Max((12 * ONE) \div 10, Mul((12 * ONE) \div 100, minRadius))
      minFragMass == Max(massFromRadius(MIN_FRAG_RADIUS), 1)
      maxByMass == Max(3, fragmentMassTotal \div minFragMass)
  IN Min(MAX_FRAGMENTS, Max(6, Min(maxByMass, Round(6 * ONE + 2 * alpha))))

\* The debris loop: fragCount fragments of equal mass
fragmentDebris(fragmentMassTotal, fragCount) ==
  Fragments(fragCount, fragmentMassTotal \div fragCount,
            radiusFromMass(fragmentMassTotal \div fragCount))

\* The bodies returned, once both lost masses are known
fragmentOutcome(b1, b2, alpha, lostMass1, lostMass2) ==
  IF alpha > VAPORIZE_THRESHOLD * ONE THEN <<>>
  ELSE fragmentCore(b1.mass, b1.mass - lostMass1)
       \o fragmentCore(b2.mass, b2.mass - lostMass2)
       \o (IF lostMass1 + lostMass2 <= 0 THEN <<>>
           ELSE fragmentDebris(lostMass1 + lostMass2,
                               fragmentCount(lostMass1 + lostMass2,
                                             Min(b1.radius, b2.radius), alpha)))

fragmentBoth(b1, b2, alpha) ==
  LET damage1 == fragmentDamage(b1.mass, b2.mass)
      damage2 == fragmentDamage(b2.mass, b1.mass)
  IN fragmentOutcome(b1, b2, alpha,
       fragmentLostMass(b1.mass, damage1, OrOne(damage1 + damage2), fragmentBaseLoss(alpha)),
       fragmentLostMass(b2.mass, damage2, OrOne(damage1 + damage2), fragmentBaseLoss(alpha)))

\* alpha = relative speed / escape velocity of the pair
Alpha(b1, b2) ==
  LET speedRel == Hypot(b1.vx - b2.vx, b1.vy - b2.vy)
      R_eff == Max(b1.radius, b2.radius)
      vEsc == computeEscapeVelocity(GRAVITY_CONSTANT * ONE, b1.mass + b2.mass,
                                    R_eff, SOFTENING * ONE)
  IN IF vEsc > 0 THEN Div(speedRel, vEsc) ELSE 0

\* Mutant of computeOutcome: no short cut for an extreme mass ratio.
computeOutcome_NoShortcut(b1, b2) ==
  LET m1 == b1.mass
      m2 == b2.mass
      totalMass == m1 + m2
      ratio == IF m1 > m2 THEN Div(m1, m2) ELSE Div(m2, m1)
      alpha == Alpha(b1, b2)
      big == IF m1 >= m2 THEN b1 ELSE b2
      small == IF m1 >= m2 THEN b2 ELSE b1
  IN IF totalMass <= 0 THEN <<>>
     ELSE IF alpha < ALPHA_MERGE THEN <<createMergedBody(b1, b2)>>
     ELSE IF ratio > MASS_RATIO_BIG * ONE THEN collisionBigSmall(big, small, alpha)
     ELSE fragmentBoth(b1, b2, alpha)

computeOutcome(b1, b2) ==
  LET m1 == b1.mass
      m2 == b2.mass
      totalMass == m1 + m2
      ratio == IF m1 > m2 THEN Div(m1, m2) ELSE Div(m2, m1)
      alpha == Alpha(b1, b2)
      big == IF m1 >= m2 THEN b1 ELSE b2
      small == IF m1 >= m2 THEN b2 ELSE b1
  IN IF totalMass <= 0 THEN <<>>
     ELSE IF ratio > 1000 * ONE THEN <<createMergedBody(b1, b2)>>
     ELSE IF alpha < ALPHA_MERGE THEN <<createMergedBody(b1, b2)>>
     ELSE IF ratio > MASS_RATIO_BIG * ONE THEN collisionBigSmall(big, small, alpha)
     ELSE fragmentBoth(b1, b2, alpha)

(***************************************************************************)
(* QuadTree                                                                *)
(*                                                                         *)
(* A node is a record; body = NullBody is the code's null, children = <<>> *)
(* its null children.  The tree is rebuilt from an empty root every tick.  *)
(***************************************************************************)
NullBody ==
  [id |-> 0, mass |-> 0, radius |-> 0, isDebris |-> FALSE,
   x |-> 0, y |-> 0, vx |-> 0, vy |-> 0]

\* new Node(x, y, size, depth) / Node.reset(x, y, size, depth)
Node(x, y, size, depth) ==
  [x |-> x, y |-> y, size |-> size, depth |-> depth,
   mass |-> 0, comx |-> 0, comy |-> 0,
   body |-> NullBody, children |-> <<>>]

\* Node._getQuadrant: 1 = NW, 2 = NE, 3 = SW, 4 = SE (the code's 0..3)
getQuadrant(node, body) ==
  LET midX == node.x + node.size \div 2
      midY == node.y + node.size \div 2
      right == body.x >= midX
      bottom == body.y >= midY
  IN IF ~right /\ ~bottom THEN 1
     ELSE IF right /\ ~bottom THEN 2
     ELSE IF ~right /\ bottom THEN 3
     ELSE 4

\* Node._subdivide
subdivide(node) ==
  LET half == node.size \div 2
      nextDepth == node.depth + 1
  IN [node EXCEPT !.children =
        << Node(node.x, node.y, half, nextDepth),
           Node(node.x + half, node.y, half, nextDepth),
           Node(node.x, node.y + half, half, nextDepth),
           Node(node.x + half, node.y + half, half, nextDepth) >>]

\* Node.insert
RECURSIVE nodeInsert(_, _)
nodeInsert(node, body) ==
  LET totalMass == node.mass + body.mass
      wx == Div(Mul(node.comx, node.mass) + Mul(body.x, body.mass), totalMass)
      wy == Div(Mul(node.comy, node.mass) + Mul(body.y, body.mass), totalMass)
      n1 == [node EXCEPT !.mass = totalMass, !.comx = wx, !.comy = wy]
  IN IF n1.children # <<>>
       THEN [n1 EXCEPT !.children[getQuadrant(n1, body)] = nodeInsert(@, body)]
     ELSE IF n1.body = NullBody
       THEN [n1 EXCEPT !.body = body]
     ELSE IF n1.depth < MAX_DEPTH
       THEN LET s == subdivide(n1)
                s1 == [s EXCEPT !.children[getQuadrant(s, s.body)] = nodeInsert(@, s.body),
                                !.body = NullBody]
            IN [s1 EXCEPT !.children[getQuadrant(s1, body)] = nodeInsert(@, body)]
     ELSE n1

\* Node.query: the bodies of the nodes whose square meets the box around range
RECURSIVE nodeQuery(_, _)
nodeQuery(node, range) ==
  LET rangeLeft == range.x - range.r
      rangeRight == range.x + range.r
      rangeTop == range.y - range.r
      rangeBottom == range.y + range.r
      nodeRight == node.x + node.size
      nodeBottom == node.y + node.size
  IN IF \/ rangeLeft > nodeRight
        \/ rangeRight < node.x
        \/ rangeTop > nodeBottom
        \/ rangeBottom < node.y
       THEN <<>>
       ELSE (IF node.body # NullBody THEN <<node.body>> ELSE <<>>)
            \o (IF node.children # <<>>
                  THEN nodeQuery(node.children[1], range)
                       \o nodeQuery(node.children[2], range)
                       \o nodeQuery(node.children[3], range)
                       \o nodeQuery(node.children[4], range)
                  ELSE <<>>)

\* QuadTree.reset(bounds): a fresh root over the square that covers bounds
treeReset(bounds) == Node(bounds.x, bounds.y, Max(bounds.width, bounds.height), 0)

\* QuadTree.insert for each body of a list, in list order
RECURSIVE treeInsertAll(_, _, _)
treeInsertAll(root, bs, i) ==
  IF i > Len(bs) THEN root ELSE treeInsertAll(nodeInsert(root, bs[i]), bs, i + 1)

\* QuadTree.query(x, y, radius)
treeQuery(root, x, y, radius) == nodeQuery(root, [x |-> x, y |-> y, r |-> radius])

(***************************************************************************)
(* World                                                                   *)
(***************************************************************************)
\* Bounds of the model
MaxTime == 2
TemplateRadii == {2}
DtValues == {-1, 0, 1}
\* Where a tick may leave a body: at rest at one of three points, or moving
\* fast through the first of them.  A tick that integrates nothing leaves it
\* at rest.
AtRest == [pos |-> <<0, 0>>, vel |-> <<0, 0>>]
Motions ==
  { AtRest, [pos |-> <<0, 0>>, vel |-> <<8, 0>>],
    [pos |-> <<3, 0>>, vel |-> <<0, 0>>], [pos |-> <<0, 40>>, vel |-> <<0, 0>>] }

\* Enough identities for a full list and everything one tick can generate.
NumIds == MAX_BODIES + (MAX_BODIES \div 2) * (MAX_FRAGMENTS + 2)
BodyIds == 1..NumIds

VARIABLES
  bodies,               \* World.bodies: the live list, records id/mass/radius/isDebris
  time,                 \* World.time
  collisionCount,       \* World.collisionCount
  stepsSinceLastTrail,  \* World.stepsSinceLastTrail
  emitted,              \* what the last operation emitted on the event bus, in order
  resolved,             \* the computeOutcome calls of the last operation, in order
  lastOp,               \* the last operation, its argument and its return value
  placed,               \* the list as the last tick's motion placed it, <<>> otherwise
  observer,             \* a listener's set of bodies, kept from the notifications
  call,                 \* one computeOutcome call: inputs, scratch pool, returned bodies
  qt,                   \* a QuadTree and the shared Node pool
  selectedBody,         \* CreationController.selectedBody: a body's id, 0 for null
  collisionCooldown     \* Body.collisionCooldown of each identity, in 1/ONE seconds

vars == <<bodies, time, collisionCount, stepsSinceLastTrail,
          emitted, resolved, lastOp, placed, observer, call, qt, selectedBody,
          collisionCooldown>>

Ids(bs) == [i \in 1..Len(bs) |-> bs[i].id]
IdSet(bs) == {bs[i].id : i \in 1..Len(bs)}
SetMin(S) == CHOOSE m \in S : \A k \in S : m <= k
SetMax(S) == CHOOSE m \in S : \A k \in S : m >= k

\* The world's fields as one value
World ==
  [bodies |-> bodies, time |-> time, collisionCount |-> collisionCount,
   stepsSinceLastTrail |-> stepsSinceLastTrail]

\* EventBus.emit(event, data) as delivered to a listener: the payload, and the
\* live list (identities) the listener finds in the world during the callback.
Notification(event, bodyA, bodyB, count, t, bodyCount, live) ==
  [event |-> event, bodyA |-> bodyA, bodyB |-> bodyB, collisionCount |-> count,
   time |-> t, bodyCount |-> bodyCount, live |-> live]

\* What an operation hands back: the world after it, its notifications, the
\* computeOutcome calls it made, its return value, and for a tick the list the
\* collision pass ran on.
Result(w, em, calls, ret) ==
  [w |-> w, emitted |-> em, resolved |-> calls, ret |-> ret, placed |-> <<>>]

\* Mutant of addBody: the capacity test is off by one (> for >=).
addBody_OffByOne(w, body) ==
  IF Len(w.bodies) > MAX_BODIES
    THEN Result(w, <<>>, <<>>, FALSE)
    ELSE LET pushed == Append(w.bodies, body)
         IN Result([w EXCEPT !.bodies = pushed],
                   <<Notification("world:body-added", body.id, 0, 0, 0, 0, Ids(pushed))>>,
                   <<>>, TRUE)

\* World.addBody
addBody(w, body) ==
  IF Len(w.bodies) >= MAX_BODIES
    THEN Result(w, <<>>, <<>>, FALSE)
    ELSE LET pushed == Append(w.bodies, body)
         IN Result([w EXCEPT !.bodies = pushed],
                   <<Notification("world:body-added", body.id, 0, 0, 0, 0, Ids(pushed))>>,
                   <<>>, TRUE)

\* Array.indexOf: the first index holding the identity, 0 when absent
indexOf(bs, id) ==
  IF id \in IdSet(bs) THEN SetMin({i \in 1..Len(bs) : bs[i].id = id}) ELSE 0

\* Mutant of splice: drops the last element whatever the index (pop).
splice_Pop(bs, index) == SubSeq(bs, 1, Len(bs) - 1)

\* Array.splice(index, 1)
splice(bs, index) ==
  [i \in 1..(Len(bs) - 1) |-> IF i < index THEN bs[i] ELSE bs[i + 1]]

\* World.removeBody
removeBody(w, id) ==
  LET index == indexOf(w.bodies, id)
  IN IF index = 0
       THEN Result(w, <<>>, <<>>, FALSE)
       ELSE Result([w EXCEPT !.bodies = splice(w.bodies, index)],
                   <<Notification("world:body-removed", id, 0, 0, 0, 0, Ids(w.bodies))>>,
                   <<>>, TRUE)

\* Mutant of clear: the collision counter is not reset.
clear_KeepCount(w) ==
  LET cleared == [w EXCEPT !.bodies = <<>>, !.time = 0]
  IN Result(cleared,
            <<Notification("world:cleared", 0, 0, cleared.collisionCount, 0, 0, <<>>)>>,
            <<>>, TRUE)

\* World.clear
clear(w) ==
  LET cleared == [w EXCEPT !.bodies = <<>>, !.time = 0, !.collisionCount = 0]
  IN Result(cleared,
            <<Notification("world:cleared", 0, 0, cleared.collisionCount, 0, 0, <<>>)>>,
            <<>>, TRUE)

(***************************************************************************)
(* World.step and its collision pass                                       *)
(***************************************************************************)
Range(seq) == {seq[i] : i \in 1..Len(seq)}

\* Set.add on a Set kept in insertion order
setAdd(seq, id) == IF id \in Range(seq) THEN seq ELSE Append(seq, id)

RECURSIVE SortedSeq(_)
SortedSeq(S) == IF S = {} THEN <<>> ELSE <<SetMin(S)>> \o SortedSeq(S \ {SetMin(S)})

\* The list entry of a body: what the world keeps of it between ticks
Live(b) == [id |-> b.id, mass |-> b.mass, radius |-> b.radius, isDebris |-> b.isDebris]

\* A live body as the tick's motion left it
Placed(b, motion) ==
  [id |-> b.id, mass |-> b.mass, radius |-> b.radius, isDebris |-> b.isDebris,
   x |-> motion[b.id].pos[1] * ONE, y |-> motion[b.id].pos[2] * ONE,
   vx |-> motion[b.id].vel[1] * ONE, vy |-> motion[b.id].vel[2] * ONE]

\* World._updateBoundsAndTrees: the collision tree, reset over the padded
\* bounding box of the positions
updateBoundsAndTrees(bs) ==
  LET minX == SetMin({bs[i].x : i \in 1..Len(bs)})
      minY == SetMin({bs[i].y : i \in 1..Len(bs)})
      maxX == SetMax({bs[i].x : i \in 1..Len(bs)})
      maxY == SetMax({bs[i].y : i \in 1..Len(bs)})
      padding == SEARCH_PADDING * ONE
  IN treeReset([x |-> minX - padding, y |-> minY - padding,
                width |-> maxX - minX + padding * 2,
                height |-> maxY - minY + padding * 2])

\* Mutant of resolvePair: the notification is built before the counter is
\* raised.
resolvePair_EmitBeforeCount(bi, bj, acc, list) ==
  LET outcome == computeOutcome(bi, bj)
      count == acc.collisionCount + 1
  IN [generated      |-> acc.generated \o outcome,
      dead           |-> setAdd(setAdd(acc.dead, bi.id), bj.id),
      collisionCount |-> count,
      emitted        |-> Append(acc.emitted,
                           Notification("world:collision", bi.id, bj.id,
                                        acc.collisionCount, 0, 0, Ids(list))),
      resolved       |-> Append(acc.resolved, <<bi.id, bj.id>>)]

\* Mutant of resolvePair: the two bodies are spliced out of this.bodies at
\* once, before the notification.
resolvePair_SpliceNow(bi, bj, acc, list) ==
  LET outcome == computeOutcome(bi, bj)
      count == acc.collisionCount + 1
      spliced == SelectSeq(list, LAMBDA b : b.id # bi.id /\ b.id # bj.id)
  IN [generated      |-> acc.generated \o outcome,
      dead           |-> setAdd(setAdd(acc.dead, bi.id), bj.id),
      collisionCount |-> count,
      emitted        |-> Append(acc.emitted,
                           Notification("world:collision", bi.id, bj.id, count,
                                        0, 0, Ids(spliced))),
      resolved       |-> Append(acc.resolved, <<bi.id, bj.id>>)]

\* The body of `if (distSq < rSum * rSum)`: one resolved pair.  list is
\* this.bodies at that moment.
resolvePair(bi, bj, acc, list) ==
  LET outcome == computeOutcome(bi, bj)
      count == acc.collisionCount + 1
  IN [generated      |-> acc.generated \o outcome,
      dead           |-> setAdd(setAdd(acc.dead, bi.id), bj.id),
      collisionCount |-> count,
      emitted        |-> Append(acc.emitted,
                           Notification("world:collision", bi.id, bj.id, count,
                                        0, 0, Ids(list))),
      resolved       |-> Append(acc.resolved, <<bi.id, bj.id>>)]

\* Mutant of skipNeighbor: a neighbour already marked dead is not skipped.
skipNeighbor_NoDead(bi, bj, acc) ==
  \/ bi.id = bj.id
  \/ (bi.isDebris /\ bj.isDebris)

\* The neighbour's part of the skip tests of the inner loop
skipNeighbor(bi, bj, acc) ==
  \/ bi.id = bj.id
  \/ bj.id \in Range(acc.dead)
  \/ (bi.isDebris /\ bj.isDebris)

\* The exact overlap test of the inner loop
overlaps(bi, bj) ==
  LET dx == bj.x - bi.x
      dy == bj.y - bi.y
      rSum == bi.radius + bj.radius
      distSq == dx * dx + dy * dy
  IN distSq < rSum * rSum

\* for (const bj of neighbors) { ... break; }
RECURSIVE scanNeighbors(_, _, _, _, _)
scanNeighbors(bi, neighbors, j, acc, list) ==
  IF j > Len(neighbors) THEN acc
  ELSE LET bj == neighbors[j]
       IN IF skipNeighbor(bi, bj, acc) THEN scanNeighbors(bi, neighbors, j + 1, acc, list)
          ELSE IF overlaps(bi, bj) THEN resolvePair(bi, bj, acc, list)
          ELSE scanNeighbors(bi, neighbors, j + 1, acc, list)

\* Mutant of skipInitiator: debris is not skipped as initiating body.
skipInitiator_NoDebris(bi, acc) == bi.id \in Range(acc.dead)

\* The initiating body's skip tests of the outer loop
skipInitiator(bi, acc) == bi.id \in Range(acc.dead) \/ bi.isDebris

\* for (let i = 0; i < n; i++) { ... }
RECURSIVE collisionPass(_, _, _, _)
collisionPass(bs, root, i, acc) ==
  IF i > Len(bs) THEN acc
  ELSE LET bi == bs[i]
           searchRadius == bi.radius + SEARCH_PADDING * ONE
       IN IF skipInitiator(bi, acc) THEN collisionPass(bs, root, i + 1, acc)
          ELSE collisionPass(bs, root, i + 1,
                 scanNeighbors(bi, treeQuery(root, bi.x, bi.y, searchRadius), 1, acc, bs))

\* Mutant of pushGenerated: every generated body is pushed, cap or not.
pushGenerated_NoCap(list, generated, k) == list \o SubSeq(generated, k, Len(generated))

\* Mutant of pushGenerated: a generated body is put in front of the list.
RECURSIVE pushGenerated_Front(_, _, _)
pushGenerated_Front(list, generated, k) ==
  IF k > Len(generated) THEN list
  ELSE pushGenerated_Front(IF Len(list) < MAX_BODIES THEN <<generated[k]>> \o list ELSE list,
                           generated, k + 1)

\* for (const newBody of generatedBodies) if (bodies.length < max) bodies.push(newBody)
RECURSIVE pushGenerated(_, _, _)
pushGenerated(list, generated, k) ==
  IF k > Len(generated) THEN list
  ELSE pushGenerated(IF Len(list) < MAX_BODIES THEN Append(list, generated[k]) ELSE list,
                     generated, k + 1)

\* The stable compaction: the bodies not marked dead, in order
compact(list, dead) == SelectSeq(list, LAMBDA b : b.id \notin Range(dead))

\* Mutant of resolveCollisions: the dead bodies are announced after the list
\* has been compacted, not before.
resolveCollisions_EmitAfterCompaction(w, bs, root) ==
  LET tree == treeInsertAll(root, bs, 1)
      acc == collisionPass(bs, tree, 1,
               [generated |-> <<>>, dead |-> <<>>, collisionCount |-> w.collisionCount,
                emitted |-> <<>>, resolved |-> <<>>])
      fresh == SortedSeq(BodyIds \ IdSet(w.bodies))
      newBodies == [k \in 1..Len(acc.generated) |->
                      [id |-> fresh[k], mass |-> acc.generated[k].mass,
                       radius |-> acc.generated[k].radius,
                       isDebris |-> acc.generated[k].isDebris]]
      removed == [k \in 1..Len(acc.dead) |->
                    Notification("world:body-removed", acc.dead[k], 0, 0, 0, 0,
                                 Ids(compact(w.bodies, acc.dead)))]
  IN IF Len(acc.dead) > 0 \/ Len(acc.generated) > 0
       THEN Result([w EXCEPT !.bodies = pushGenerated(compact(w.bodies, acc.dead),
                                                      newBodies, 1),
                             !.collisionCount = acc.collisionCount],
                   acc.emitted \o removed, acc.resolved, TRUE)
       ELSE Result(w, acc.emitted, acc.resolved, TRUE)

\* The end of World._resolveCollisions, after the loop over the bodies: acc
\* holds the generated bodies, the dead ones and the notifications so far
finishPass(w, acc) ==
  LET fresh == SortedSeq(BodyIds \ IdSet(w.bodies))
      newBodies == [k \in 1..Len(acc.generated) |->
                      [id |-> fresh[k], mass |-> acc.generated[k].mass,
                       radius |-> acc.generated[k].radius,
                       isDebris |-> acc.generated[k].isDebris]]
      removed == [k \in 1..Len(acc.dead) |->
                    Notification("world:body-removed", acc.dead[k], 0, 0, 0, 0,
                                 Ids(w.bodies))]
  IN IF Len(acc.dead) > 0 \/ Len(acc.generated) > 0
       THEN Result([w EXCEPT !.bodies = pushGenerated(compact(w.bodies, acc.dead),
                                                      newBodies, 1),
                             !.collisionCount = acc.collisionCount],
                   acc.emitted \o removed, acc.resolved, TRUE)
       ELSE Result(w, acc.emitted, acc.resolved, TRUE)

\* World._resolveCollisions on the placed list bs with the reset tree root
resolveCollisions(w, bs, root) ==
  finishPass(w, collisionPass(bs, treeInsertAll(root, bs, 1), 1,
                  [generated |-> <<>>, dead |-> <<>>, collisionCount |-> w.collisionCount,
                   emitted |-> <<>>, resolved |-> <<>>]))

\* Mutant of step: the guard lets dt = 0 through (dt < 0 for dt <= 0).
step_ZeroDt(w, dt, motion) ==
  IF dt < 0 THEN Result(w, <<>>, <<>>, TRUE)
  ELSE IF Len(w.bodies) = 0 THEN Result([w EXCEPT !.time = @ + dt], <<>>, <<>>, TRUE)
  ELSE LET counted == w.stepsSinceLastTrail + 1
           updateTrail == counted >= TRAIL_INTERVAL
           w1 == [w EXCEPT !.stepsSinceLastTrail = IF updateTrail THEN 0 ELSE counted]
           bs == [i \in 1..Len(w1.bodies) |-> Placed(w1.bodies[i], motion)]
           r == resolveCollisions(w1, bs, updateBoundsAndTrees(bs))
           w2 == [r.w EXCEPT !.time = @ + dt]
       IN [Result(w2,
                  Append(r.emitted,
                         Notification("world:step", 0, 0, w2.collisionCount, w2.time,
                                      Len(w2.bodies), Ids(w2.bodies))),
                  r.resolved, TRUE)
           EXCEPT !.placed = bs]

\* The end of World.step: r is what _resolveCollisions returned on the
\* placed list bs
endStep(r, dt, bs) ==
  LET w2 == [r.w EXCEPT !.time = @ + dt]
  IN [Result(w2,
             Append(r.emitted,
                    Notification("world:step", 0, 0, w2.collisionCount, w2.time,
                                 Len(w2.bodies), Ids(w2.bodies))),
             r.resolved, TRUE)
      EXCEPT !.placed = bs]

\* The collision pass of World.step on the placed list bs
collide(w1, dt, bs) == endStep(resolveCollisions(w1, bs, updateBoundsAndTrees(bs)), dt, bs)

\* World.step(dt); motion is what Dynamics left of each live body
step(w, dt, motion) ==
  IF dt <= 0 THEN Result(w, <<>>, <<>>, TRUE)
  ELSE IF Len(w.bodies) = 0 THEN Result([w EXCEPT !.time = @ + dt], <<>>, <<>>, TRUE)
  ELSE LET counted == w.stepsSinceLastTrail + 1
           updateTrail == counted >= TRAIL_INTERVAL
           w1 == [w EXCEPT !.stepsSinceLastTrail = IF updateTrail THEN 0 ELSE counted]
       IN collide(w1, dt, [i \in 1..Len(w1.bodies) |-> Placed(w1.bodies[i], motion)])

(***************************************************************************)
(* A listener that keeps its own set of bodies from the notifications      *)
(***************************************************************************)
observe(set, n) ==
  IF n.event = "world:body-added" THEN set \cup {n.bodyA}
  ELSE IF n.event = "world:body-removed" THEN set \ {n.bodyA}
  ELSE IF n.event = "world:cleared" THEN {}
  ELSE set

RECURSIVE observeAll(_, _, _)
observeAll(set, em, k) ==
  IF k > Len(em) THEN set ELSE observeAll(observe(set, em[k]), em, k + 1)

(***************************************************************************)
(* The specification                                                       *)
(***************************************************************************)
\* new World(eventBus)
WorldInit ==
  /\ bodies = <<>>
  /\ time = 0
  /\ collisionCount = 0
  /\ stepsSinceLastTrail = 0
  /\ emitted = <<>>
  /\ resolved = <<>>
  /\ lastOp = [op |-> "new", arg |-> 0, ret |-> TRUE]
  /\ placed = <<>>
  /\ observer = {}

\* No resolver call and no tree under observation
NoCall == [done |-> TRUE]
NoTree == [root |-> 0]

\* new Body(...): collisionCooldown = 0
NoCooldown == [id \in BodyIds |-> 0]

Init ==
  /\ WorldInit
  /\ call = NoCall
  /\ qt = NoTree
  /\ selectedBody = 0
  /\ collisionCooldown = NoCooldown

\* The world after an operation, and what it emitted and returned
Apply(op, arg, r) ==
  /\ bodies' = r.w.bodies
  /\ time' = r.w.time
  /\ collisionCount' = r.w.collisionCount
  /\ stepsSinceLastTrail' = r.w.stepsSinceLastTrail
  /\ emitted' = r.emitted
  /\ resolved' = r.resolved
  /\ lastOp' = [op |-> op, arg |-> arg, ret |-> r.ret]
  /\ placed' = r.placed
  /\ observer' = observeAll(observer, r.emitted, 1)
  /\ UNCHANGED <<call, qt, selectedBody, collisionCooldown>>

\* A caller adds a body it has just constructed (or one no longer live)
AddBody ==
  \E radius \in TemplateRadii :
    LET body == [id |-> SetMin(BodyIds \ IdSet(bodies)),
                 mass |-> massFromRadius(radius * ONE),
                 radius |-> radius * ONE, isDebris |-> FALSE]
    IN \E r \in {addBody(World, body)} : Apply("addBody", body.id, r)

\* A caller removes a live body, or one that is not in the list
RemoveBody ==
  \E id \in IdSet(bodies) \cup {SetMin(BodyIds \ IdSet(bodies))} :
    \E r \in {removeBody(World, id)} : Apply("removeBody", id, r)

Clear == \E r \in {clear(World)} : Apply("clear", 0, r)

Step ==
  \E dt \in DtValues :
    /\ time + dt <= MaxTime
    /\ \E motion \in IF dt > 0 THEN [IdSet(bodies) -> Motions]
                               ELSE {[id \in IdSet(bodies) |-> AtRest]} :
         \E r \in {step(World, dt, motion)} : Apply("step", dt, r)

Next == AddBody \/ RemoveBody \/ Clear \/ Step

Spec == Init /\ [][Next]_vars

(***************************************************************************)
(* The input controller on the event bus and the world that listens to it *)
(***************************************************************************)
\* CreationController._setSelectedBody(body): selectedBody = body || null,
\* then the emit of 'interaction:select' with it
setSelectedBody(body) ==
  [selectedBody |-> body,
   emitted |-> <<Notification("interaction:select", body, 0, 0, 0, 0, <<>>)>>]

\* CreationController._onKeyDown with no text field focused, for the keys
\* that touch the selection: Delete and Backspace clear the selection first
\* and then emit 'world:remove-body' with this.selectedBody as it is by then.
\* The result is the selection afterwards and the emits, in order.
onKeyDown(selected, code) ==
  IF code \in {"Delete", "Backspace"} /\ selected # 0
    THEN LET s == setSelectedBody(0)
         IN [s EXCEPT !.emitted = Append(@,
               Notification("world:remove-body", s.selectedBody, 0, 0, 0, 0, <<>>))]
    ELSE [selectedBody |-> selected, emitted |-> <<>>]

\* The listeners World._initEvents registers, run on a list of emits in
\* order: 'world:remove-body' calls removeBody with the payload.  The result
\* is the world afterwards with everything emitted, the listeners' own
\* emits after the emit that caused them.
RECURSIVE deliver(_, _, _)
deliver(r, em, k) ==
  IF k > Len(em) THEN r
  ELSE IF em[k].event = "world:remove-body"
    THEN LET removed == removeBody(r.w, em[k].bodyA)
         IN deliver([r EXCEPT !.w = removed.w,
                              !.emitted = Append(@, em[k]) \o removed.emitted,
                              !.ret = removed.ret],
                    em, k + 1)
  ELSE deliver([r EXCEPT !.emitted = Append(@, em[k])], em, k + 1)

\* The keys pressed: the two that delete and one that does not
KeyCodes == {"Delete", "Backspace", "Space"}

InitController == Init

\* The world and the selection after a handler of the controller
ApplyInput(op, arg, sel, r) ==
  /\ selectedBody' = sel
  /\ bodies' = r.w.bodies
  /\ time' = r.w.time
  /\ collisionCount' = r.w.collisionCount
  /\ stepsSinceLastTrail' = r.w.stepsSinceLastTrail
  /\ emitted' = r.emitted
  /\ resolved' = r.resolved
  /\ lastOp' = [op |-> op, arg |-> arg, ret |-> r.ret]
  /\ placed' = r.placed
  /\ observer' = observeAll(observer, r.emitted, 1)
  /\ UNCHANGED <<call, qt, collisionCooldown>>

\* A keydown event; lastOp keeps the key, the selection before it and whether
\* a removeBody it caused returned true
KeyDown ==
  \E code \in KeyCodes :
    LET k == onKeyDown(selectedBody, code)
    IN ApplyInput(code, selectedBody, k.selectedBody,
                  deliver(Result(World, <<>>, <<>>, FALSE), k.emitted, 1))

\* A left click in IDLE mode that hits the live body hit, or a click that
\* hits no body (0) while one is selected, or a right click (0)
MouseDown ==
  \E hit \in IdSet(bodies) \cup {0} :
    /\ hit = 0 => selectedBody # 0
    /\ LET s == setSelectedBody(hit)
       IN ApplyInput("mousedown", hit, s.selectedBody,
                     deliver(Result(World, <<>>, <<>>, TRUE), s.emitted, 1))

NextController == AddBody \/ RemoveBody \/ Clear \/ MouseDown \/ KeyDown

SpecController == InitController /\ [][NextController]_vars

(***************************************************************************)
(* The world in ticks shorter than the collision cooldown, with the        *)
(* cooldown the resolver stamps on the bodies it creates.  Time is in      *)
(* 1/ONE seconds here.                                                     *)
(***************************************************************************)
\* The ticks a run takes, and the length of a tick: a quarter of a second
MaxCoolTicks == 2
CoolDt == ONE \div 4

\* The collisionCooldown of the bodies computeOutcome(b1, b2) returns when
\* getTime() is t: _createMergedBody leaves the constructor's 0, the crater
\* and the fragmentation paths assign t + 0.5 to every body they create
stampCooldown(b1, b2, t) ==
  LET outcome == computeOutcome(b1, b2)
      ratio == IF b1.mass > b2.mass THEN Div(b1.mass, b2.mass) ELSE Div(b2.mass, b1.mass)
      merged == ratio > 1000 * ONE \/ Alpha(b1, b2) < ALPHA_MERGE
  IN [k \in 1..Len(outcome) |-> IF merged THEN 0 ELSE t + ONE \div 2]

\* The cooldowns of everything the resolved pairs calls[k..] generated at
\* time t, in generation order; bs is the list the pass ran on
RECURSIVE stampAll(_, _, _, _)
stampAll(calls, bs, t, k) ==
  IF k > Len(calls) THEN <<>>
  ELSE stampCooldown(CHOOSE b \in Range(bs) : b.id = calls[k][1],
                     CHOOSE b \in Range(bs) : b.id = calls[k][2], t)
       \o stampAll(calls, bs, t, k + 1)

\* The cooldown of every identity after a tick that began at time t with the
\* identities before in the list and ended with the result r: the bodies
\* the tick appended carry the stamps of their outcomes
cooldownAfter(cooldown, before, t, r) ==
  LET new == SelectSeq(Ids(r.w.bodies), LAMBDA id : id \notin before)
      stamps == stampAll(r.resolved, r.placed, t, 1)
  IN [id \in BodyIds |->
        IF \E k \in 1..Len(new) : new[k] = id
          THEN stamps[CHOOSE k \in 1..Len(new) : new[k] = id]
          ELSE cooldown[id]]

\* The world and the cooldowns after an operation
ApplyCooling(op, arg, r, cooldown) ==
  /\ collisionCooldown' = cooldown
  /\ bodies' = r.w.bodies
  /\ time' = r.w.time
  /\ collisionCount' = r.w.collisionCount
  /\ stepsSinceLastTrail' = r.w.stepsSinceLastTrail
  /\ emitted' = r.emitted
  /\ resolved' = r.resolved
  /\ lastOp' = [op |-> op, arg |-> arg, ret |-> r.ret]
  /\ placed' = r.placed
  /\ observer' = observeAll(observer, r.emitted, 1)
  /\ UNCHANGED <<call, qt, selectedBody>>

InitCooldown == Init

\* A caller adds a body it has just constructed
CoolAddBody ==
  \E radius \in TemplateRadii :
    LET body == [id |-> SetMin(BodyIds \ IdSet(bodies)),
                 mass |-> massFromRadius(radius * ONE),
                 radius |-> radius * ONE, isDebris |-> FALSE]
    IN ApplyCooling("addBody", body.id, addBody(World, body),
                    [collisionCooldown EXCEPT ![body.id] = 0])

\* World.step(dt) with dt a quarter of a second
CoolStep ==
  /\ time + CoolDt <= MaxCoolTicks * CoolDt
  /\ \E motion \in [IdSet(bodies) -> Motions] :
       \E r \in {step(World, CoolDt, motion)} :
         ApplyCooling("step", CoolDt, r,
                      cooldownAfter(collisionCooldown, IdSet(bodies), time, r))

NextCooldown == CoolAddBody \/ CoolStep

SpecCooldown == InitCooldown /\ [][NextCooldown]_vars

(***************************************************************************)
(* The resolver on its own: computeOutcome called on a pair of bodies, and *)
(* called again on the same pair at the next higher closing speed          *)
(***************************************************************************)
\* Scenario bodies: mass 100 and radius 8; radius 2; radius 0.25
Heavy == [mass |-> 100 * ONE, radius |-> 8 * ONE]
Light == [mass |-> massFromRadius(2 * ONE), radius |-> 2 * ONE]
Speck == [mass |-> massFromRadius(ONE \div 4), radius |-> ONE \div 4]
Pairs == {<<Heavy, Heavy>>, <<Light, Light>>, <<Heavy, Light>>, <<Light, Heavy>>,
          <<Heavy, Speck>>, <<Speck, Heavy>>}

\* The closing speeds of the first body, in units per second, ascending
Speeds == <<0, 5, 9, 10, 20, 200, 4000>>

\* The scratch vectors a call takes from Vec2.pool (and gives back): none on
\* the early returns, normal/tangent/vcm otherwise, dir in the crater
\* branch, dirFrag where a debris loop runs.
scratchVectors(b1, b2) ==
  LET ratio == IF b1.mass > b2.mass THEN Div(b1.mass, b2.mass) ELSE Div(b2.mass, b1.mass)
      alpha == Alpha(b1, b2)
  IN IF b1.mass + b2.mass <= 0 \/ ratio > 1000 * ONE THEN 0
     ELSE IF alpha < ALPHA_MERGE THEN 3
     ELSE IF ratio > MASS_RATIO_BIG * ONE
       THEN (IF alpha > VAPORIZE_THRESHOLD * ONE THEN 4 ELSE 5)
     ELSE IF alpha > VAPORIZE_THRESHOLD * ONE THEN 3 ELSE 4

\* Vec2.pool and the vectors of one call by identity: pool is the stack,
\* next the identity the next new Vec2 gets, popped and pushed the vectors
\* the call took with Vec2.pop and gave to Vec2.push, made the position and
\* velocity vectors it constructed for the bodies it returns.
\* Vec2.pop(): the last vector of the pool, a new one if the pool is empty
vecPop(s) ==
  IF s.pool # <<>>
    THEN [s EXCEPT !.pool = SubSeq(@, 1, Len(@) - 1),
                   !.popped = Append(@, s.pool[Len(s.pool)])]
    ELSE [s EXCEPT !.next = @ + 1, !.popped = Append(@, s.next)]

\* Vec2.push(v)
vecPush(s, v) == [s EXCEPT !.pool = Append(@, v), !.pushed = Append(@, v)]

\* new Vec2(...) twice for each of n new bodies: position and velocity
vecNew(s, n) ==
  [s EXCEPT !.next = @ + 2 * n,
            !.made = @ \o [k \in 1..(2 * n) |-> s.next + k - 1]]

\* The vector popped last
lastPopped(s) == s.popped[Len(s.popped)]

\* The debris loop of either branch: dirFrag popped, the fragments made,
\* dirFrag pushed
debrisVectors(s, n) == vecPush(vecNew(vecPop(s), n), lastPopped(vecPop(s)))

\* Mutant of craterVectors: the early return does not push dir.
craterVectors_LeakDir(s, outcome, early) ==
  IF early THEN vecNew(vecPop(s), 1)
  ELSE vecPush(debrisVectors(vecNew(vecPop(s), 1), Len(outcome) - 1),
               lastPopped(vecPop(s)))

\* _collisionBigSmall: dir popped, the core made, then either the early
\* return or the debris loop, dir pushed before both returns
craterVectors(s, outcome, early) ==
  IF early THEN vecPush(vecNew(vecPop(s), 1), lastPopped(vecPop(s)))
  ELSE vecPush(debrisVectors(vecNew(vecPop(s), 1), Len(outcome) - 1),
               lastPopped(vecPop(s)))

\* _fragmentBoth: nothing on the vaporize return, else the cores made and,
\* if there is mass for fragments, the debris loop
fragmentVectors(s, outcome, early) ==
  LET cores == Len(SelectSeq(outcome, LAMBDA b : ~b.isDebris))
  IN IF early THEN s
     ELSE IF Len(outcome) = cores THEN vecNew(s, cores)
     ELSE debrisVectors(vecNew(s, cores), Len(outcome) - cores)

\* try { ... } finally { Vec2.push(normal); Vec2.push(tangent); Vec2.push(vcm) }
\* around the branch: s is the pool after the three pops, after the pool
\* when the branch has returned
finallyPush(s, after) ==
  vecPush(vecPush(vecPush(after, s.popped[1]), s.popped[2]), s.popped[3])

\* The pops, pushes and constructions of computeOutcome(b1, b2), branch by
\* branch, on the pool a caller left as s0
outcomeVectors(b1, b2, s0) ==
  LET s == [s0 EXCEPT !.popped = <<>>, !.pushed = <<>>, !.made = <<>>]
      ratio == IF b1.mass > b2.mass THEN Div(b1.mass, b2.mass) ELSE Div(b2.mass, b1.mass)
      alpha == Alpha(b1, b2)
      early == alpha > VAPORIZE_THRESHOLD * ONE
      p == vecPop(vecPop(vecPop(s)))
  IN IF b1.mass + b2.mass <= 0 THEN s
     ELSE IF ratio > 1000 * ONE THEN vecNew(s, 1)
     ELSE IF alpha < ALPHA_MERGE THEN finallyPush(p, vecNew(p, 1))
     ELSE IF ratio > MASS_RATIO_BIG * ONE
       THEN finallyPush(p, craterVectors(p, computeOutcome(b1, b2), early))
     ELSE finallyPush(p, fragmentVectors(p, computeOutcome(b1, b2), early))

\* Mutant of computeOutcomeCall: vcm is the first body's velocity vector
\* itself, not a scratch vector, so vcm.set(...) overwrites that velocity.
computeOutcomeCall_AliasVcm(c) ==
  LET outcome == computeOutcome(c.b1, c.b2)
      used == scratchVectors(c.b1, c.b2)
  IN [c EXCEPT !.pool = Max(@, used),
               !.vec = outcomeVectors(c.b1, c.b2, @),
               !.outcome = outcome,
               !.done = TRUE,
               !.sizes = Append(@, [alpha |-> Alpha(c.b1, c.b2), size |-> Len(outcome)]),
               !.b1.vx = IF used = 0 THEN @
                         ELSE weighted(c.b1.vx, c.b1.mass, c.b2.vx, c.b2.mass),
               !.b1.vy = IF used = 0 THEN @
                         ELSE weighted(c.b1.vy, c.b1.mass, c.b2.vy, c.b2.mass)]

\* One call of computeOutcome(b1, b2): what it leaves of its inputs and of
\* the pool, and what it returns.  The code assigns to no field of b1 or b2.
computeOutcomeCall(c) ==
  LET outcome == computeOutcome(c.b1, c.b2)
  IN [c EXCEPT !.pool = Max(@, scratchVectors(c.b1, c.b2)),
               !.vec = outcomeVectors(c.b1, c.b2, @),
               !.outcome = outcome,
               !.done = TRUE,
               !.sizes = Append(@, [alpha |-> Alpha(c.b1, c.b2), size |-> Len(outcome)])]

InitResolver ==
  /\ time = 0
  /\ collisionCount = 0
  /\ stepsSinceLastTrail = 0
  /\ emitted = <<>>
  /\ resolved = <<>>
  /\ lastOp = [op |-> "new", arg |-> 0, ret |-> TRUE]
  /\ placed = <<>>
  /\ observer = {}
  /\ qt = NoTree
  /\ selectedBody = 0
  /\ collisionCooldown = NoCooldown
  /\ \E pair \in Pairs, x2 \in {0, 6 * ONE}, vy2 \in {0, 3 * ONE}, pool \in {0, 5} :
       call = [b1 |-> [id |-> 1, mass |-> pair[1].mass, radius |-> pair[1].radius,
                       isDebris |-> FALSE, x |-> 0, y |-> 0,
                       vx |-> Speeds[1] * ONE, vy |-> 0],
               b2 |-> [id |-> 2, mass |-> pair[2].mass, radius |-> pair[2].radius,
                       isDebris |-> FALSE, x |-> x2, y |-> 0, vx |-> 0, vy |-> vy2],
               pool |-> pool, outcome |-> <<>>, done |-> FALSE, speed |-> 1,
               sizes |-> <<>>,
               vec |-> [pool |-> [k \in 1..pool |-> k], next |-> pool + 1,
                        popped |-> <<>>, pushed |-> <<>>, made |-> <<>>]]
  /\ bodies = <<Live(call.b1), Live(call.b2)>>

ComputeOutcome ==
  /\ ~call.done
  /\ call' = computeOutcomeCall(call)
  /\ UNCHANGED <<bodies, time, collisionCount, stepsSinceLastTrail,
                 emitted, resolved, lastOp, placed, observer, qt, selectedBody,
                 collisionCooldown>>

\* The same two bodies meet again, the first one faster
Faster ==
  /\ call.done
  /\ call.speed < Len(Speeds)
  /\ call' = [call EXCEPT !.speed = @ + 1, !.b1.vx = Speeds[call.speed + 1] * ONE,
                          !.outcome = <<>>, !.done = FALSE]
  /\ UNCHANGED <<bodies, time, collisionCount, stepsSinceLastTrail,
                 emitted, resolved, lastOp, placed, observer, qt, selectedBody,
                 collisionCooldown>>

NextResolver == ComputeOutcome \/ Faster

SpecResolver == InitResolver /\ [][NextResolver]_vars

(***************************************************************************)
(* QuadTree over the shared Node.pool                                      *)
(*                                                                         *)
(* The world's gravityTree and collisionTree take their nodes from one    *)
(* static pool.  Here the nodes are objects of a heap: qt.heap[id] is the  *)
(* node with identity id, its children a tuple of four identities (<<>>    *)
(* for null), and qt.pool the stack of recycled identities.  A store s is  *)
(* [heap, pool, id], id being the node the last Node.pop returned.         *)
(***************************************************************************)
MaxInserts == 2
MaxRebuilds == 3

TreeNames == {"gravityTree", "collisionTree"}

\* The QuadTree constructor is spelt cconstructor and never runs: theta is
\* never assigned and no root exists before the first reset.
theta == "undefined"

\* size / dist < this.theta; a comparison with undefined is false
belowTheta(size, dist) ==
  IF theta = "undefined" THEN FALSE ELSE dist > 0 /\ Div(size, dist) < theta

\* Node.reset that leaves the aggregates of the node's last use in place
nodeReset_StaleAggregates(node, x, y, size, depth) ==
  [node EXCEPT !.x = x, !.y = y, !.size = size, !.depth = depth,
               !.body = NullBody, !.children = <<>>]

\* Node.reset(x, y, size, depth) of a recycled node
nodeReset(node, x, y, size, depth) ==
  [node EXCEPT !.x = x, !.y = y, !.size = size, !.depth = depth,
               !.mass = 0, !.comx = 0, !.comy = 0,
               !.body = NullBody, !.children = <<>>]

\* Mutant of nodePop: the recycled node is read off the pool but stays in it.
nodePop_Peek(s, x, y, size, depth) ==
  IF s.pool # <<>>
    THEN [heap |-> [s.heap EXCEPT ![s.pool[Len(s.pool)]] = nodeReset(@, x, y, size, depth)],
          pool |-> s.pool,
          id |-> s.pool[Len(s.pool)]]
    ELSE [heap |-> Append(s.heap, Node(x, y, size, depth)),
          pool |-> s.pool,
          id |-> Len(s.heap) + 1]

\* Node.pop(x, y, size, depth): the top of the pool, reset, or a new node
nodePop(s, x, y, size, depth) ==
  IF s.pool # <<>>
    THEN [heap |-> [s.heap EXCEPT ![s.pool[Len(s.pool)]] = nodeReset(@, x, y, size, depth)],
          pool |-> SubSeq(s.pool, 1, Len(s.pool) - 1),
          id |-> s.pool[Len(s.pool)]]
    ELSE [heap |-> Append(s.heap, Node(x, y, size, depth)),
          pool |-> s.pool,
          id |-> Len(s.heap) + 1]

\* Node.reclaim: the children first, in order, then the node itself
RECURSIVE nodeReclaim(_, _)
RECURSIVE reclaimChildren(_, _, _)
reclaimChildren(s, kids, k) ==
  IF k > Len(kids) THEN s ELSE reclaimChildren(nodeReclaim(s, kids[k]), kids, k + 1)

nodeReclaim(s, id) ==
  LET s1 == IF s.heap[id].children # <<>>
              THEN [reclaimChildren(s, s.heap[id].children, 1)
                      EXCEPT !.heap[id].children = <<>>]
              ELSE s
  IN [s1 EXCEPT !.pool = Append(@, id)]

\* Node._subdivide: four Node.pop calls, NW, NE, SW, SE
RECURSIVE popChildren(_, _, _, _)
popChildren(s, id, k, kids) ==
  IF k > 4 THEN [s EXCEPT !.heap[id].children = kids]
  ELSE LET node == s.heap[id]
           half == node.size \div 2
           p == nodePop(s, node.x + ((k - 1) % 2) * half,
                        node.y + ((k - 1) \div 2) * half, half, node.depth + 1)
       IN popChildren(p, id, k + 1, Append(kids, p.id))

pooledSubdivide(s, id) == popChildren(s, id, 1, <<>>)

\* Node.insert on the node id of the heap
RECURSIVE pooledInsert(_, _, _)
\* Mutant of pooledSplit: the subdivided node keeps its body.
pooledSplit_KeepBody(s, id, body) ==
  LET s2 == pooledSubdivide(s, id)
      old == s2.heap[id].body
      s3 == pooledInsert(s2, s2.heap[id].children[getQuadrant(s2.heap[id], old)], old)
  IN pooledInsert(s3, s3.heap[id].children[getQuadrant(s3.heap[id], body)], body)

\* Case 3 of Node.insert: subdivide, move the stored body down, insert body
pooledSplit(s, id, body) ==
  LET s2 == pooledSubdivide(s, id)
      old == s2.heap[id].body
      s3 == [pooledInsert(s2, s2.heap[id].children[getQuadrant(s2.heap[id], old)], old)
               EXCEPT !.heap[id].body = NullBody]
  IN pooledInsert(s3, s3.heap[id].children[getQuadrant(s3.heap[id], body)], body)

\* Mutant of pooledInsert: a leaf at MAX_DEPTH is still subdivided.
pooledInsert_DepthOffByOne(s, id, body) ==
  LET node == s.heap[id]
      totalMass == node.mass + body.mass
      wx == Div(Mul(node.comx, node.mass) + Mul(body.x, body.mass), totalMass)
      wy == Div(Mul(node.comy, node.mass) + Mul(body.y, body.mass), totalMass)
      s1 == [s EXCEPT !.heap[id] = [@ EXCEPT !.mass = totalMass, !.comx = wx, !.comy = wy]]
  IN IF node.children # <<>>
       THEN pooledInsert(s1, node.children[getQuadrant(node, body)], body)
     ELSE IF node.body = NullBody
       THEN [s1 EXCEPT !.heap[id].body = body]
     ELSE IF node.depth <= MAX_DEPTH
       THEN pooledSplit(s1, id, body)
     ELSE s1

pooledInsert(s, id, body) ==
  LET node == s.heap[id]
      totalMass == node.mass + body.mass
      wx == Div(Mul(node.comx, node.mass) + Mul(body.x, body.mass), totalMass)
      wy == Div(Mul(node.comy, node.mass) + Mul(body.y, body.mass), totalMass)
      s1 == [s EXCEPT !.heap[id] = [@ EXCEPT !.mass = totalMass, !.comx = wx, !.comy = wy]]
  IN IF node.children # <<>>
       THEN pooledInsert(s1, node.children[getQuadrant(node, body)], body)
     ELSE IF node.body = NullBody
       THEN [s1 EXCEPT !.heap[id].body = body]
     ELSE IF node.depth < MAX_DEPTH
       THEN pooledSplit(s1, id, body)
     ELSE s1

\* QuadTree._applyGravity.  invDist3 is below the resolution of the fixed
\* point, so G * mass * invDist3 is computed as (G * mass) / (d2 * sqrt(d2)).
applyGravity(G, softening, mass, dx, dy, distSq, dist, forceAcc) ==
  LET softSq == Mul(softening, softening)
      factor == Div(Mul(G, mass), Mul(distSq + softSq, Sqrt(distSq + softSq)))
  IN [x |-> forceAcc.x + Mul(dx, factor), y |-> forceAcc.y + Mul(dy, factor)]

\* QuadTree._calculateForceRecursive on the node id of the heap
RECURSIVE calculateForceRecursive(_, _, _, _, _, _)
RECURSIVE forceOfChildren(_, _, _, _, _, _, _)
forceOfChildren(heap, kids, k, body, G, softening, forceAcc) ==
  IF k > Len(kids) THEN forceAcc
  ELSE forceOfChildren(heap, kids, k + 1, body, G, softening,
         calculateForceRecursive(heap, kids[k], body, G, softening, forceAcc))

forceOnNode(heap, node, dx, dy, body, G, softening, forceAcc) ==
  LET distSq == Mul(dx, dx) + Mul(dy, dy)
      dist == Sqrt(distSq)
  IN IF node.children # <<>> /\ belowTheta(node.size, dist)
       THEN applyGravity(G, softening, node.mass, dx, dy, distSq, dist, forceAcc)
     ELSE IF node.body # NullBody
       THEN applyGravity(G, softening, node.mass, dx, dy, distSq, dist, forceAcc)
     ELSE IF node.children # <<>>
       THEN forceOfChildren(heap, node.children, 1, body, G, softening, forceAcc)
     ELSE forceAcc

calculateForceRecursive(heap, id, body, G, softening, forceAcc) ==
  IF heap[id].mass = 0 \/ heap[id].body.id = body.id THEN forceAcc
  ELSE forceOnNode(heap, heap[id], heap[id].comx - body.x, heap[id].comy - body.y,
                   body, G, softening, forceAcc)

\* The nodes _calculateForceRecursive calls _applyGravity for on the way
\* down from the node id, in call order
RECURSIVE pointMasses(_, _, _)
pointMasses(heap, id, body) ==
  LET node == heap[id]
      dx == node.comx - body.x
      dy == node.comy - body.y
      dist == Sqrt(Mul(dx, dx) + Mul(dy, dy))
  IN IF node.mass = 0 \/ node.body.id = body.id THEN <<>>
     ELSE IF node.children # <<>> /\ belowTheta(node.size, dist) THEN <<id>>
     ELSE IF node.body # NullBody THEN <<id>>
     ELSE IF node.children # <<>>
       THEN pointMasses(heap, node.children[1], body)
            \o pointMasses(heap, node.children[2], body)
            \o pointMasses(heap, node.children[3], body)
            \o pointMasses(heap, node.children[4], body)
     ELSE <<>>

\* The default of the parameter theta of cconstructor
defaultTheta == ONE \div 2

\* The statement of C23 as an operator.  The nodes the opening rule with the
\* angle th names as point masses: an internal node when
\* size / dist < theta, a leaf unless it holds the queried body, the
\* children's otherwise
RECURSIVE openingRule(_, _, _, _)
openingRule(heap, id, body, th) ==
  LET node == heap[id]
      dx == node.comx - body.x
      dy == node.comy - body.y
      dist == Sqrt(Mul(dx, dx) + Mul(dy, dy))
  IN IF node.mass = 0 \/ node.body.id = body.id THEN <<>>
     ELSE IF node.children # <<>> /\ node.size * ONE < th * dist THEN <<id>>
     ELSE IF node.body # NullBody THEN <<id>>
     ELSE IF node.children # <<>>
       THEN openingRule(heap, node.children[1], body, th)
            \o openingRule(heap, node.children[2], body, th)
            \o openingRule(heap, node.children[3], body, th)
            \o openingRule(heap, node.children[4], body, th)
     ELSE <<>>

\* QuadTree.calculateForce(body, G, softening) of the tree rooted at root
calculateForce(heap, root, body, G, softening) ==
  calculateForceRecursive(heap, root, body, G, softening, [x |-> 0, y |-> 0])

\* Node.query on the node id of the heap: the bodies stored in the nodes
\* whose square meets the box around range, in the order found
RECURSIVE pooledQuery(_, _, _)
pooledQuery(heap, id, range) ==
  LET node == heap[id]
      rangeLeft == range.x - range.r
      rangeRight == range.x + range.r
      rangeTop == range.y - range.r
      rangeBottom == range.y + range.r
      nodeRight == node.x + node.size
      nodeBottom == node.y + node.size
  IN IF \/ rangeLeft > nodeRight
        \/ rangeRight < node.x
        \/ rangeTop > nodeBottom
        \/ rangeBottom < node.y
       THEN <<>>
       ELSE (IF node.body # NullBody THEN <<node.body>> ELSE <<>>)
            \o (IF node.children # <<>>
                  THEN pooledQuery(heap, node.children[1], range)
                       \o pooledQuery(heap, node.children[2], range)
                       \o pooledQuery(heap, node.children[3], range)
                       \o pooledQuery(heap, node.children[4], range)
                  ELSE <<>>)

\* QuadTree.reset(bounds) of the tree rooted at root (0 for no root yet):
\* the store after it, id being the new root
pooledReset(s, root, bounds) ==
  nodePop(IF root # 0 THEN nodeReclaim(s, root) ELSE s,
          bounds.x, bounds.y, Max(bounds.width, bounds.height), 0)

\* QuadTree.insert for each body of a list, in list order
RECURSIVE pooledInsertAll(_, _, _, _)
pooledInsertAll(s, root, bs, i) ==
  IF i > Len(bs) THEN [s EXCEPT !.id = root]
  ELSE pooledInsertAll(pooledInsert(s, root, bs[i]), root, bs, i + 1)

\* reset(bounds) and the inserts of bs on a QuadTree of a program that has
\* recycled no node yet: every Node.pop constructs a node
firstBuild(bounds, bs) ==
  LET s == pooledReset([heap |-> <<>>, pool |-> <<>>, id |-> 0], 0, bounds)
  IN pooledInsertAll(s, s.id, bs, 1)

\* The tree below the node id as a value: every node with its fields and
\* its children in place of their identities
RECURSIVE structure(_, _)
structure(heap, id) ==
  [heap[id] EXCEPT !.children =
     IF @ = <<>> THEN <<>> ELSE [k \in 1..4 |-> structure(heap, heap[id].children[k])]]

\* The identities of the nodes below id, parents before children
RECURSIVE nodeIds(_, _)
RECURSIVE nodeIdsOf(_, _, _)
nodeIdsOf(heap, kids, k) ==
  IF k > Len(kids) THEN <<>> ELSE nodeIds(heap, kids[k]) \o nodeIdsOf(heap, kids, k + 1)

nodeIds(heap, id) == <<id>> \o nodeIdsOf(heap, heap[id].children, 1)

\* The bodies and the bounds the trees are built from.  Bodies 1 and 2 are at
\* the same position; body 3 lies in another quadrant of the root.
TreeBody(id, x, y, mass) ==
  [id |-> id, mass |-> mass, radius |-> radiusFromMass(mass), isDebris |-> FALSE,
   x |-> x, y |-> y, vx |-> 0, vy |-> 0]

TreeBodies ==
  { TreeBody(1, 2 * ONE, 2 * ONE, 10 * ONE),
    TreeBody(2, 2 * ONE, 2 * ONE, 5 * ONE),
    TreeBody(3, 12 * ONE, 10 * ONE, 20 * ONE) }

\* The ranges query is called with: around bodies 1 and 2, the whole square
QueryRanges ==
  { [x |-> 2 * ONE, y |-> 2 * ONE, r |-> ONE],
    [x |-> 8 * ONE, y |-> 8 * ONE, r |-> 8 * ONE] }

TreeBounds == { [x |-> 0, y |-> 0, width |-> 16 * ONE, height |-> 12 * ONE] }

InitTree ==
  /\ time = 0
  /\ collisionCount = 0
  /\ stepsSinceLastTrail = 0
  /\ emitted = <<>>
  /\ resolved = <<>>
  /\ lastOp = [op |-> "new", arg |-> 0, ret |-> TRUE]
  /\ placed = <<>>
  /\ observer = {}
  /\ bodies = <<>>
  /\ call = NoCall
  /\ selectedBody = 0
  /\ collisionCooldown = NoCooldown
  /\ qt = [heap |-> <<>>, pool |-> <<>>,
           root |-> [t \in TreeNames |-> 0],
           bounds |-> [t \in TreeNames |-> [x |-> 0, y |-> 0, width |-> 1, height |-> 1]],
           inserted |-> [t \in TreeNames |-> <<>>],
           rebuilds |-> 0,
           last |-> [tree |-> "none"],
           found |-> [tree |-> "none"]]

\* QuadTree.reset(bounds) of the tree t
TreeReset(t, bounds) ==
  /\ qt.rebuilds < MaxRebuilds
  /\ LET s == pooledReset([heap |-> qt.heap, pool |-> qt.pool, id |-> 0],
                          qt.root[t], bounds)
     IN qt' = [qt EXCEPT !.heap = s.heap, !.pool = s.pool, !.root[t] = s.id,
                         !.bounds[t] = bounds, !.inserted[t] = <<>>,
                         !.rebuilds = @ + 1, !.last = [tree |-> "none"],
                         !.found = [tree |-> "none"]]
  /\ UNCHANGED <<bodies, time, collisionCount, stepsSinceLastTrail,
                 emitted, resolved, lastOp, placed, observer, call, selectedBody,
                 collisionCooldown>>

\* QuadTree.insert(body) on the tree t
TreeInsert(t, body) ==
  /\ qt.root[t] # 0
  /\ Len(qt.inserted[t]) < MaxInserts
  /\ \A k \in 1..Len(qt.inserted[t]) : qt.inserted[t][k] # body
  /\ LET s == pooledInsert([heap |-> qt.heap, pool |-> qt.pool, id |-> 0],
                           qt.root[t], body)
     IN qt' = [qt EXCEPT !.heap = s.heap, !.pool = s.pool,
                         !.inserted[t] = Append(@, body),
                         !.last = [tree |-> "none"],
                         !.found = [tree |-> "none"]]
  /\ UNCHANGED <<bodies, time, collisionCount, stepsSinceLastTrail,
                 emitted, resolved, lastOp, placed, observer, call, selectedBody,
                 collisionCooldown>>

\* QuadTree.calculateForce(body, G, softening) on the tree t; until the next
\* call qt.last keeps the query, the bounds, bodies and nodes of the tree it
\* ran on and the force it returned
TreeCalculateForce(t, body) ==
  /\ qt.root[t] # 0
  /\ qt' = [qt EXCEPT !.last =
              [tree |-> t, bounds |-> qt.bounds[t], inserted |-> qt.inserted[t],
               ids |-> nodeIds(qt.heap, qt.root[t]), body |-> body,
               force |-> calculateForce(qt.heap, qt.root[t], body,
                                        GRAVITY_CONSTANT * ONE, SOFTENING * ONE)],
                       !.found = [tree |-> "none"]]
  /\ UNCHANGED <<bodies, time, collisionCount, stepsSinceLastTrail,
                 emitted, resolved, lastOp, placed, observer, call, selectedBody,
                 collisionCooldown>>

\* QuadTree.query(x, y, radius) on the tree t; until the next call qt.found
\* keeps the range and the list of bodies it returned
TreeQuery(t, range) ==
  /\ qt.root[t] # 0
  /\ qt' = [qt EXCEPT !.found =
              [tree |-> t, range |-> range,
               bodies |-> pooledQuery(qt.heap, qt.root[t], range)],
                       !.last = [tree |-> "none"]]
  /\ UNCHANGED <<bodies, time, collisionCount, stepsSinceLastTrail,
                 emitted, resolved, lastOp, placed, observer, call, selectedBody,
                 collisionCooldown>>

NextTree ==
  \/ \E t \in TreeNames, bounds \in TreeBounds : TreeReset(t, bounds)
  \/ \E t \in TreeNames, body \in TreeBodies : TreeInsert(t, body)
  \/ \E t \in TreeNames, body \in TreeBodies : TreeCalculateForce(t, body)
  \/ \E t \in TreeNames, range \in QueryRanges : TreeQuery(t, range)

SpecTree == InitTree /\ [][NextTree]_vars

(***************************************************************************)
(* Claims                                                                  *)
(***************************************************************************)
\* The world's own fields, without the record of the last operation
WorldUnchanged == UNCHANGED <<bodies, time, collisionCount, stepsSinceLastTrail>>

\* The notifications of one kind among those of the last operation
Emitted(event) == SelectSeq(emitted, LAMBDA n : n.event = event)

\* C1: in every reachable state the live list holds at most MAX_BODIES
\* bodies, also right after a tick that removed dead bodies and appended
\* generated ones.
C1_CapEnforced == Len(bodies) <= MAX_BODIES

\* A tick that removed dead bodies, appended generated ones and left the
\* list full.
C1_Witness ==
  /\ lastOp.op = "step"
  /\ Len(Emitted("world:body-removed")) > 0
  /\ \E i \in 1..Len(bodies) : bodies[i].id \notin IdSet(placed)
  /\ Len(bodies) = MAX_BODIES

\* C2: addBody on a full list returns false, leaves list, time and counter
\* alone and emits nothing; below capacity it appends the body at the end,
\* emits one body-added notification for it and returns true.
C2_AddBody ==
  [][lastOp'.op = "addBody" =>
       IF Len(bodies) >= MAX_BODIES
         THEN /\ lastOp'.ret = FALSE
              /\ bodies' = bodies
              /\ time' = time
              /\ collisionCount' = collisionCount
              /\ emitted' = <<>>
         ELSE /\ lastOp'.ret = TRUE
              /\ Len(bodies') = Len(bodies) + 1
              /\ SubSeq(bodies', 1, Len(bodies)) = bodies
              /\ bodies'[Len(bodies')].id = lastOp'.arg
              /\ Len(emitted') = 1
              /\ emitted'[1].event = "world:body-added"
              /\ emitted'[1].bodyA = lastOp'.arg]_vars

\* addBody has just been refused on a full list.
C2_Witness ==
  /\ lastOp.op = "addBody"
  /\ lastOp.ret = FALSE
  /\ Len(bodies) = MAX_BODIES
  /\ emitted = <<>>

\* C3: removeBody of a body that is not in the list returns false, changes
\* nothing and emits nothing; of a body in the list it removes exactly that
\* body, keeps the order of the others and returns true.
C3_RemoveBody ==
  [][lastOp'.op = "removeBody" =>
       IF lastOp'.arg \notin IdSet(bodies)
         THEN /\ lastOp'.ret = FALSE
              /\ WorldUnchanged
              /\ emitted' = <<>>
         ELSE /\ lastOp'.ret = TRUE
              /\ Len(bodies') = Len(bodies) - 1
              /\ bodies' = SelectSeq(bodies, LAMBDA b : b.id # lastOp'.arg)
              /\ time' = time
              /\ collisionCount' = collisionCount]_vars

\* removeBody has just been refused for a stale body on a non-empty list.
C3_Witness ==
  /\ lastOp.op = "removeBody"
  /\ lastOp.ret = FALSE
  /\ Len(bodies) >= 2
  /\ emitted = <<>>

\* C4: after clear() the list is empty, time and collision counter are 0 and
\* exactly one world-cleared notification, carrying collisionCount 0, was
\* emitted.
C4_Clear ==
  lastOp.op = "clear" =>
    /\ bodies = <<>>
    /\ time = 0
    /\ collisionCount = 0
    /\ Len(emitted) = 1
    /\ emitted[1].event = "world:cleared"
    /\ emitted[1].collisionCount = 0

\* clear() has just run on a world that had ticked with bodies in it (the
\* trail counter, which clear leaves alone, still shows the tick).
C4_Witness ==
  /\ lastOp.op = "clear"
  /\ stepsSinceLastTrail = 1
  /\ bodies = <<>>

\* C5: step(dt) with dt <= 0 changes neither bodies, time, collision counter
\* nor trail counter and emits nothing; with dt > 0 on an empty world it
\* changes only the time, by exactly dt.
C5_StepNoOp ==
  [][lastOp'.op = "step" =>
       /\ lastOp'.arg <= 0 => (WorldUnchanged /\ emitted' = <<>>)
       /\ (lastOp'.arg > 0 /\ bodies = <<>>) =>
            /\ time' = time + lastOp'.arg
            /\ UNCHANGED <<bodies, collisionCount, stepsSinceLastTrail>>]_vars

\* step(dt <= 0) has just run on a world that holds bodies and has ticked.
C5_Witness ==
  /\ lastOp.op = "step"
  /\ lastOp.arg <= 0
  /\ Len(bodies) > 0
  /\ stepsSinceLastTrail = 1
  /\ emitted = <<>>

\* The body with an identity, as the last tick placed it
PlacedBody(id) == CHOOSE b \in Range(placed) : b.id = id

\* The two bodies of a resolved pair
Pair(k) == {resolved[k][1], resolved[k][2]}

\* The collision tree of the last tick
PlacedTree == treeInsertAll(updateBoundsAndTrees(placed), placed, 1)

\* C6: within one tick every body takes part in at most one resolved
\* collision: a body once passed to computeOutcome is not passed to it again
\* in that tick, neither as initiating body nor as neighbour.
C6_OneCollisionPerBody ==
  \A k, l \in 1..Len(resolved) :
    /\ resolved[k][1] # resolved[k][2]
    /\ (k # l) => (Pair(k) \cap Pair(l) = {})

\* A tick resolved a pair while a third, non-debris body overlapped one of the
\* two and found it among its neighbours: it met a body already dead.
C6_Witness ==
  /\ lastOp.op = "step"
  /\ Len(resolved) = 1
  /\ \E c \in Range(placed) :
       /\ c.id \notin Pair(1)
       /\ ~c.isDebris
       /\ \E a \in Range(treeQuery(PlacedTree, c.x, c.y,
                                   c.radius + SEARCH_PADDING * ONE)) :
            a.id \in Pair(1) /\ overlaps(c, a)

\* C7: no collision is resolved between two debris bodies: the initiating
\* body of every resolved pair is not debris, so debris is only ever consumed
\* as the neighbour of a non-debris body.
C7_NoDebrisInitiator ==
  \A k \in 1..Len(resolved) : ~PlacedBody(resolved[k][1]).isDebris

\* A tick resolved a pair whose neighbour was debris.
C7_Witness ==
  /\ lastOp.op = "step"
  /\ Len(resolved) = 1
  /\ PlacedBody(resolved[1][2]).isDebris
  /\ ~PlacedBody(resolved[1][1]).isDebris

\* C8, as claimed: every notification of a tick is delivered with the live
\* list in its final state for that tick.
C8_DeliveredOnFinalList ==
  lastOp.op = "step" =>
    \A k \in 1..Len(emitted) : emitted[k].live = Ids(bodies)

\* C8, amended: during a tick the collision-occurred and body-removed
\* notifications are delivered while the live list is still exactly the list
\* the tick began with (nothing removed, nothing inserted), and only the
\* step-completed notification is delivered with the final list.
C8_DeliveredOnSnapshot ==
  [][lastOp'.op = "step" =>
       \A k \in 1..Len(emitted') :
         /\ emitted'[k].event \in {"world:collision", "world:body-removed", "world:step"}
         /\ emitted'[k].event \in {"world:collision", "world:body-removed"}
              => emitted'[k].live = Ids(bodies)
         /\ emitted'[k].event = "world:step"
              => (k = Len(emitted') /\ emitted'[k].live = Ids(bodies'))]_vars

\* A tick resolved a collision and announced it while the list still held the
\* two dead bodies and lacked the generated ones.
C8_Witness ==
  /\ lastOp.op = "step"
  /\ Len(Emitted("world:collision")) > 0
  /\ Len(Emitted("world:body-removed")) = 2
  /\ \A k \in 1..(Len(emitted) - 1) : emitted[k].live # Ids(bodies)
  /\ emitted[Len(emitted)].live = Ids(bodies)

\* C9, as claimed: a listener that follows body-added, body-removed and
\* world-cleared holds exactly the live set after every operation.
C9_ObserverExact == observer = IdSet(bodies)

\* C10: each resolved pair raises the collision counter by exactly one and
\* marks two distinct bodies that were not marked before; its
\* collision-occurred notification carries the two bodies and the raised
\* count; no operation but clear() lowers the counter, and only a tick
\* raises it.
C10_CollisionCounter ==
  [][/\ lastOp'.op # "clear" => collisionCount' >= collisionCount
     /\ lastOp'.op \in {"addBody", "removeBody"} => collisionCount' = collisionCount
     /\ lastOp'.op = "step" =>
          LET notes == SelectSeq(emitted', LAMBDA n : n.event = "world:collision")
          IN /\ collisionCount' = collisionCount + Len(resolved')
             /\ Len(notes) = Len(resolved')
             /\ \A k \in 1..Len(resolved') :
                  /\ notes[k].bodyA = resolved'[k][1]
                  /\ notes[k].bodyB = resolved'[k][2]
                  /\ notes[k].collisionCount = collisionCount + k
                  /\ resolved'[k][1] # resolved'[k][2]
                  /\ \A l \in 1..(k - 1) :
                       {resolved'[k][1], resolved'[k][2]}
                         \cap {resolved'[l][1], resolved'[l][2]} = {}]_vars

\* A tick has resolved the second collision since the last clear.
C10_Witness ==
  /\ lastOp.op = "step"
  /\ Len(resolved) = 1
  /\ collisionCount = 2
  /\ Emitted("world:collision")[1].collisionCount = 2

(***************************************************************************)
(* Claims about computeOutcome                                             *)
(***************************************************************************)
\* The heavier mass over the lighter one
MassRatio(b1, b2) ==
  IF b1.mass > b2.mass THEN Div(b1.mass, b2.mass) ELSE Div(b2.mass, b1.mass)

\* The call took a merge return: the extreme-ratio short cut or alpha below
\* ALPHA_MERGE
MergeBranch(b1, b2) ==
  /\ b1.mass + b2.mass > 0
  /\ (MassRatio(b1, b2) > 1000 * ONE \/ Alpha(b1, b2) < ALPHA_MERGE)

\* total * merged = first + second, to within the rounding of one division
Conserved(merged, total, first, second) ==
  Abs(MulWide(merged, total) - (first + second)) <= total \div ONE + 1

RECURSIVE SumMass(_, _)
SumMass(out, k) == IF k > Len(out) THEN 0 ELSE out[k].mass + SumMass(out, k + 1)

Debris(out) == SelectSeq(out, LAMBDA b : b.isDebris)
Cores(out) == SelectSeq(out, LAMBDA b : ~b.isDebris)

\* C11: a merge returns exactly one body; its mass is m1 + m2 exactly, and
\* its velocity and position are the mass-weighted averages of the inputs',
\* so that mass * velocity equals m1 * v1 + m2 * v2 (likewise for the
\* position) to within rounding.
C11_MergeConserves ==
  (call.done /\ MergeBranch(call.b1, call.b2)) =>
    /\ Len(call.outcome) = 1
    /\ LET m == call.outcome[1]
           b1 == call.b1
           b2 == call.b2
       IN /\ m.mass = b1.mass + b2.mass
          /\ Conserved(m.vx, m.mass, MulWide(b1.vx, b1.mass), MulWide(b2.vx, b2.mass))
          /\ Conserved(m.vy, m.mass, MulWide(b1.vy, b1.mass), MulWide(b2.vy, b2.mass))
          /\ Conserved(m.x, m.mass, MulWide(b1.x, b1.mass), MulWide(b2.x, b2.mass))
          /\ Conserved(m.y, m.mass, MulWide(b1.y, b1.mass), MulWide(b2.y, b2.mass))

\* Two bodies of different mass, apart and both moving, merged below the
\* merge threshold into one body that moves slower than the first.
C11_Witness ==
  /\ call.done
  /\ Alpha(call.b1, call.b2) < ALPHA_MERGE
  /\ call.b1.mass > call.b2.mass
  /\ call.b1.vx > 0 /\ call.b2.vy > 0 /\ call.b2.x > 0
  /\ Len(call.outcome) = 1
  /\ call.outcome[1].vx > 0 /\ call.outcome[1].vx < call.b1.vx
  /\ call.outcome[1].x > 0 /\ call.outcome[1].x < call.b2.x

\* mass = DENSITY_2D * radius^2, to within 5 percent of the mass and four
\* units of the last place (square root, division and product each truncate)
DensityLaw(b) == Abs(b.mass - massFromRadius(b.radius)) <= b.mass \div 20 + 4

\* C12: bodies are added with mass = DENSITY_2D * radius^2; after any
\* sequence of addBody, removeBody and step every live body, generated ones
\* included, satisfies mass = DENSITY_2D * radius^2.
C12_DensityLaw == \A i \in 1..Len(bodies) : DensityLaw(bodies[i])

\* After a tick the list holds a generated core and a generated debris
\* fragment.
C12_Witness ==
  /\ lastOp.op = "step"
  /\ \E i, j \in 1..Len(bodies) :
       /\ bodies[i].id \notin IdSet(placed) /\ ~bodies[i].isDebris
       /\ bodies[j].id \notin IdSet(placed) /\ bodies[j].isDebris

EqualPair == call.b1.mass = call.b2.mass /\ call.b1.radius = call.b2.radius

\* C14, as claimed: for an equal pair met at ascending relative speeds, each
\* call returns one body (below the threshold) or more than one (above it),
\* and the number returned never goes down.
C14_Monotone ==
  EqualPair =>
    /\ \A i \in 1..Len(call.sizes) : call.sizes[i].size >= 1
    /\ \A i, j \in 1..Len(call.sizes) :
         i < j => call.sizes[i].size <= call.sizes[j].size

\* C14, amended: for an equal pair met at ascending relative speeds, a call
\* returns exactly one body when alpha is below ALPHA_MERGE, more than one
\* when alpha is from ALPHA_MERGE up to VAPORIZE_THRESHOLD, and the number
\* returned never goes down over that range; above VAPORIZE_THRESHOLD it
\* returns no body.
C14_MonotoneBelowVaporize ==
  EqualPair =>
    /\ \A i \in 1..Len(call.sizes) :
         LET a == call.sizes[i].alpha
             n == call.sizes[i].size
         IN /\ a < ALPHA_MERGE => n = 1
            /\ (a >= ALPHA_MERGE /\ a <= VAPORIZE_THRESHOLD * ONE) => n > 1
            /\ a > VAPORIZE_THRESHOLD * ONE => n = 0
    /\ \A i, j \in 1..Len(call.sizes) :
         (i < j /\ call.sizes[j].alpha <= VAPORIZE_THRESHOLD * ONE)
           => /\ call.sizes[i].alpha <= call.sizes[j].alpha
              /\ call.sizes[i].size <= call.sizes[j].size

\* An equal pair has merged at a low speed, fragmented at two higher speeds
\* far apart, and vaporized at the highest.
C14_Witness ==
  /\ EqualPair
  /\ call.done
  /\ \E i, j, k, l \in 1..Len(call.sizes) :
       /\ i < j /\ j < k /\ k < l
       /\ call.sizes[i].size = 1
       /\ call.sizes[j].size > 1
       /\ call.sizes[k].size > 1 /\ call.sizes[k].alpha > 2 * call.sizes[j].alpha
       /\ call.sizes[l].size = 0

\* Scenario B: mass 100 each, radius 8, closing at 200 units per second
ScenarioB ==
  /\ call.b1.mass = 100 * ONE /\ call.b2.mass = 100 * ONE
  /\ call.b1.radius = 8 * ONE /\ call.b2.radius = 8 * ONE
  /\ call.b1.vx = 200 * ONE /\ call.b2.vx = 0 /\ call.b2.vy = 0

\* C15, as claimed: in scenario B computeOutcome returns no body if alpha is
\* above VAPORIZE_THRESHOLD, and otherwise at least two bodies whose masses
\* sum to less than the 200 that went in (by more than the rounding of the
\* equal split among the fragments).
C15_MassLost ==
  (call.done /\ ScenarioB) =>
    IF Alpha(call.b1, call.b2) > VAPORIZE_THRESHOLD * ONE
      THEN Len(call.outcome) = 0
      ELSE /\ Len(call.outcome) >= 2
           /\ SumMass(call.outcome, 1) + MAX_FRAGMENTS < call.b1.mass + call.b2.mass

\* C16: when the heavier mass is more than 1000 times the lighter one, the
\* call returns exactly one body, the merged one, at every relative speed,
\* and takes no scratch vector: it returns before alpha is looked at.
C16_ExtremeRatioMerges ==
  [][(~call.done /\ call'.done /\ MassRatio(call.b1, call.b2) > 1000 * ONE)
       => /\ Len(call'.outcome) = 1
          /\ call'.outcome[1].mass = call.b1.mass + call.b2.mass
          /\ call'.outcome[1].radius = Hypot(call.b1.radius, call.b2.radius)
          /\ call'.pool = call.pool]_vars

\* An extreme pair met above the vaporize threshold, and one merged body
\* came back.
C16_Witness ==
  /\ call.done
  /\ MassRatio(call.b1, call.b2) > 1000 * ONE
  /\ Alpha(call.b1, call.b2) > VAPORIZE_THRESHOLD * ONE
  /\ Len(call.outcome) = 1
  /\ call.pool = 0

\* C17, as claimed: whenever alpha exceeds VAPORIZE_THRESHOLD the crater
\* branch and the mutual-fragmentation branch return an empty list.
C17_VaporizeReturnsNothing ==
  (/\ call.done
   /\ MassRatio(call.b1, call.b2) <= 1000 * ONE
   /\ Alpha(call.b1, call.b2) > VAPORIZE_THRESHOLD * ONE)
    => call.outcome = <<>>

Times(vs, v) == Cardinality({k \in 1..Len(vs) : vs[k] = v})

\* C27: when computeOutcome has returned, on whichever path, every vector
\* it took from the pool has been pushed back exactly once and nothing else
\* has been pushed, the pool holds no vector twice, the pool is as large as
\* before or larger, and the position and velocity of every returned body
\* are vectors of their own that are not in the pool.
C27_PoolBalanced ==
  call.done =>
    /\ \A v \in Range(call.vec.popped) :
         Times(call.vec.popped, v) = 1 /\ Times(call.vec.pushed, v) = 1
    /\ Range(call.vec.pushed) \subseteq Range(call.vec.popped)
    /\ \A v \in Range(call.vec.pool) : Times(call.vec.pool, v) = 1
    /\ Len(call.vec.pool) = call.pool
    /\ Len(call.vec.made) = 2 * Len(call.outcome)
    /\ \A v \in Range(call.vec.made) :
         Times(call.vec.made, v) = 1 /\ v \notin Range(call.vec.pool)

\* A crater call that ran the debris loop on a pool left by earlier calls:
\* it took five vectors, all of them recycled, and made the vectors of a
\* core and its fragments.
C27_Witness ==
  /\ call.done
  /\ Len(call.vec.popped) = 5
  /\ \A v \in Range(call.vec.popped) : v <= 5
  /\ Len(call.outcome) > 1
  /\ ~call.outcome[1].isDebris
  /\ call.outcome[2].isDebris
  /\ call.speed > 1

(***************************************************************************)
(* Claims about the collision pass                                         *)
(***************************************************************************)
\* The bodies of the resolved pairs
Participants(calls) ==
  {calls[k][1] : k \in 1..Len(calls)} \cup {calls[k][2] : k \in 1..Len(calls)}

\* C20: during the collision pass of a tick the list is the list the tick
\* began with: every resolved pair is made of bodies of that list (never of
\* a body generated in the tick), every collision is announced on that
\* list, no body is in two resolved pairs, and only after the pass the
\* marked bodies leave the list, the others keep their order, and the
\* generated bodies are appended behind them.
C20_PassOnSnapshot ==
  [][lastOp'.op = "step" =>
       LET dead == Participants(resolved')
           kept == SelectSeq(Ids(bodies), LAMBDA id : id \notin dead)
           after == Ids(bodies')
       IN /\ dead \subseteq IdSet(bodies)
          /\ Cardinality(dead) = 2 * Len(resolved')
          /\ \A k \in 1..Len(emitted') :
               emitted'[k].event = "world:collision" => emitted'[k].live = Ids(bodies)
          /\ Len(after) >= Len(kept)
          /\ SubSeq(after, 1, Len(kept)) = kept
          /\ \A i \in (Len(kept) + 1)..Len(after) : after[i] \notin IdSet(bodies)]_vars

\* A tick on three bodies resolved one pair: the third body stayed first in
\* the list and the generated bodies came behind it.
C20_Witness ==
  /\ lastOp.op = "step"
  /\ Len(placed) = 3
  /\ Len(resolved) = 1
  /\ Len(bodies) >= 2
  /\ bodies[1].id \in IdSet(placed)
  /\ bodies[2].id \notin IdSet(placed)


(***************************************************************************)
(* Claims about the QuadTree                                               *)
(***************************************************************************)
\* The trees that have a root
Built == {t \in TreeNames : qt.root[t] # 0}

\* The tree t as the first build of its bounds and bodies gives it
FirstBuild(t) == firstBuild(qt.bounds[t], qt.inserted[t])

\* The tree of the last force query as the first build gives it
LastBuild == firstBuild(qt.last.bounds, qt.last.inserted)

\* C18: after reset(bounds) and the inserts of a list of bodies, whatever
\* nodes the shared pool handed out, a QuadTree has the structure and the
\* aggregates (square, depth, mass, centre of mass, stored body of every
\* node) that the same calls give a program that recycled no node yet, and
\* calculateForce returns the force it returns on that tree: structure,
\* aggregates and acceleration depend on the bounds, the bodies, their order
\* and the queried body only, so every rebuild repeats them.
C18_RebuildDeterministic ==
  /\ \A t \in Built :
       structure(qt.heap, qt.root[t]) = structure(FirstBuild(t).heap, FirstBuild(t).id)
  /\ qt.last.tree # "none" =>
       qt.last.force = calculateForce(LastBuild.heap, LastBuild.id, qt.last.body,
                                      GRAVITY_CONSTANT * ONE, SOFTENING * ONE)

\* A force query on a subdivided tree of two bodies that was rebuilt from
\* recycled nodes: its nodes are not the ones a first build constructs, the
\* queried body is in the tree and the force on it is not zero.
C18_Witness ==
  /\ qt.last.tree # "none"
  /\ Len(qt.last.inserted) = 2
  /\ Len(qt.last.ids) > 1
  /\ qt.last.ids # nodeIds(LastBuild.heap, LastBuild.id)
  /\ qt.last.force # [x |-> 0, y |-> 0]
  /\ \E k \in 1..2 : qt.last.inserted[k] = qt.last.body


\* The nodes reachable from the root of the tree t
Reachable(t) == Range(nodeIds(qt.heap, qt.root[t]))

\* C30: whatever resets and inserts the gravity tree and the collision tree
\* have gone through on their shared pool, no node is in the pool twice, no
\* node of the pool is reachable from a root, no node is reachable from both
\* roots, and no node is reached twice from one root.
C30_PoolDisjoint ==
  /\ \A i, j \in 1..Len(qt.pool) : i # j => qt.pool[i] # qt.pool[j]
  /\ \A t \in Built : Reachable(t) \cap Range(qt.pool) = {}
  /\ \A t \in Built, u \in Built : t # u => Reachable(t) \cap Reachable(u) = {}
  /\ \A t \in Built : Cardinality(Reachable(t)) = Len(nodeIds(qt.heap, qt.root[t]))

\* Both trees are subdivided, nodes wait in the pool, and one tree has a
\* root that was constructed after one of its descendants: both were taken
\* from the pool after the other tree gave them back.
C30_Witness ==
  /\ Built = TreeNames
  /\ \A t \in TreeNames : qt.heap[qt.root[t]].children # <<>>
  /\ qt.pool # <<>>
  /\ \E t \in TreeNames : \E k \in Reachable(t) : k < qt.root[t]


\* The three states of a node
EmptyNode(n) == n.body = NullBody /\ n.children = <<>> /\ n.mass = 0
LeafNode(n) == n.body # NullBody /\ n.children = <<>>
InternalNode(n) == n.body = NullBody /\ Len(n.children) = 4

\* The nodes of the tree t, as records
NodesOf(t) == {qt.heap[k] : k \in Reachable(t)}

\* C26: between the calls, every node of a tree is empty (no body, no
\* children, mass 0), a leaf (a body, no children) or internal (four
\* children, no body); none holds a body and children.
C26_NodeStates ==
  \A t \in Built : \A n \in NodesOf(t) :
    /\ EmptyNode(n) \/ LeafNode(n) \/ InternalNode(n)
    /\ ~(n.body # NullBody /\ n.children # <<>>)

\* A tree after two inserts that has nodes in all three states
C26_Witness ==
  \E t \in Built :
    /\ Len(qt.inserted[t]) = 2
    /\ \E n \in NodesOf(t) : EmptyNode(n)
    /\ \E n \in NodesOf(t) : LeafNode(n)
    /\ \E n \in NodesOf(t) : InternalNode(n)


\* The masses of the four children of an internal node, added up
ChildMass(n) ==
  qt.heap[n.children[1]].mass + qt.heap[n.children[2]].mass
    + qt.heap[n.children[3]].mass + qt.heap[n.children[4]].mass

\* C25: after any inserts, bodies at one position among them, no node of a
\* tree is deeper than MAX_DEPTH, children are one level below their parent,
\* and no mass is lost: the root's mass is the sum of the inserted masses,
\* an internal node's mass the sum of its children's, and a leaf holds at
\* least its body's mass and exactly that above MAX_DEPTH, so a second body
\* that reaches an occupied leaf at MAX_DEPTH is added to it, not split off.
C25_DepthBounded ==
  \A t \in Built :
    /\ qt.heap[qt.root[t]].mass = SumMass(qt.inserted[t], 1)
    /\ \A n \in NodesOf(t) :
         /\ n.depth <= MAX_DEPTH
         /\ InternalNode(n) =>
              /\ \A k \in 1..4 : qt.heap[n.children[k]].depth = n.depth + 1
              /\ n.mass = ChildMass(n)
         /\ LeafNode(n) =>
              /\ n.mass >= n.body.mass
              /\ n.depth < MAX_DEPTH => n.mass = n.body.mass

\* Two bodies at one position were inserted: the leaf at MAX_DEPTH holds the
\* first and the mass of both.
C25_Witness ==
  \E t \in Built : \E n \in NodesOf(t) :
    /\ Len(qt.inserted[t]) = 2
    /\ qt.inserted[t][1].x = qt.inserted[t][2].x
    /\ qt.inserted[t][1].y = qt.inserted[t][2].y
    /\ LeafNode(n)
    /\ n.depth = MAX_DEPTH
    /\ n.body = qt.inserted[t][1]
    /\ n.mass = qt.inserted[t][1].mass + qt.inserted[t][2].mass


\* The body b lies in the box of half-width range.r around (range.x, range.y)
InBox(b, range) ==
  /\ Abs(b.x - range.x) <= range.r
  /\ Abs(b.y - range.y) <= range.r

\* How often the body b is in the list found
Occurrences(found, b) == Cardinality({k \in 1..Len(found) : found[k] = b})

\* C24: query returns every body inserted since the last reset that lies in
\* the box of half-width radius around (x, y), and no body twice.
C24_QueryComplete ==
  qt.found.tree # "none" =>
    /\ \A k \in 1..Len(qt.inserted[qt.found.tree]) :
         InBox(qt.inserted[qt.found.tree][k], qt.found.range)
           => Occurrences(qt.found.bodies, qt.inserted[qt.found.tree][k]) >= 1
    /\ \A b \in TreeBodies : Occurrences(qt.found.bodies, b) <= 1

\* What query does guarantee: it returns no body twice, and every body
\* that a node of the tree stores and that lies in the box.
StoredBodiesFound ==
  qt.found.tree # "none" =>
    /\ \A b \in TreeBodies : Occurrences(qt.found.bodies, b) <= 1
    /\ \A n \in NodesOf(qt.found.tree) :
         (n.body # NullBody /\ InBox(n.body, qt.found.range))
           => Occurrences(qt.found.bodies, n.body) = 1


\* C23: the nodes calculateForce uses as point masses are the ones the
\* opening rule names with theta = 0.5: an internal node exactly when
\* size / distance < theta, a leaf unless it holds the queried body, and
\* the children of every other internal node.
C23_OpeningAngle ==
  qt.last.tree # "none" =>
    pointMasses(qt.heap, qt.root[qt.last.tree], qt.last.body)
      = openingRule(qt.heap, qt.root[qt.last.tree], qt.last.body, defaultTheta)

\* What calculateForce does use: the leaves that hold a body other than the
\* queried one, and no internal node at any distance.
PointMassesAreLeaves ==
  qt.last.tree # "none" =>
    Range(pointMasses(qt.heap, qt.root[qt.last.tree], qt.last.body))
      = {k \in Reachable(qt.last.tree) :
           LeafNode(qt.heap[k]) /\ qt.heap[k].body.id # qt.last.body.id}

\* What the resolved pairs of the last tick generated, from pair k on, in
\* generation order
RECURSIVE GeneratedFrom(_)
GeneratedFrom(k) ==
  IF k > Len(resolved) THEN <<>>
  ELSE computeOutcome(PlacedBody(resolved[k][1]), PlacedBody(resolved[k][2]))
       \o GeneratedFrom(k + 1)

\* The bodies of the last tick's list that no resolved pair holds, in order
Survivors == SelectSeq(placed, LAMBDA b : b.id \notin Participants(resolved))

MissedPair(a, b) ==
  /\ a.id # b.id
  /\ overlaps(a, b)
  /\ ~(a.isDebris /\ b.isDebris)
  /\ a.id \notin Participants(resolved)
  /\ b.id \notin Participants(resolved)

\* C28: when the collision pass of a tick has ended, no two bodies of the
\* list it ran on overlap, are not both debris and are both still unmarked.
C28_DetectionComplete ==
  lastOp.op = "step" => \A a, b \in Range(placed) : ~MissedPair(a, b)

\* C22: no body is passed to computeOutcome before simulation time has
\* reached its collisionCooldown: every body of a pair the last tick
\* resolved had a cooldown no later than the time the tick began at.
C22_CooldownRespected ==
  lastOp.op = "step" =>
    \A id \in Participants(resolved) : collisionCooldown[id] <= time - lastOp.arg

(***************************************************************************)
(* Claims about the input controller                                       *)
(***************************************************************************)
\* The last operation was Delete or Backspace with a body selected
DeletePressed == lastOp.op \in {"Delete", "Backspace"} /\ lastOp.arg # 0

\* C29: after Delete or Backspace with a body selected, removeBody has been
\* invoked with that body ('world:remove-body' carried it), the body is not
\* in the live list, and the selection is empty.
C29_DeleteRemovesSelected ==
  DeletePressed =>
    /\ \E k \in 1..Len(emitted) :
         emitted[k].event = "world:remove-body" /\ emitted[k].bodyA = lastOp.arg
    /\ lastOp.arg \notin IdSet(bodies)
    /\ selectedBody = 0

\* What Delete and Backspace do: they empty the selection, call removeBody
\* with null, which returns false, and leave the live list as it was.
DeleteOnlyDeselects ==
  DeletePressed =>
    /\ selectedBody = 0
    /\ ~lastOp.ret
    /\ \E k \in 1..Len(emitted) :
         emitted[k].event = "world:remove-body" /\ emitted[k].bodyA = 0
    /\ \A k \in 1..Len(emitted) : emitted[k].event # "world:body-removed"

=============================================================================
